---------------------------- MODULE Spec2Model ----------------------------
(***************************************************************************)
(* nikitagk22/moto: UDS over ISO-TP over a J2534 PassThru channel.         *)
(*                                                                         *)
(* Bytes are naturals 0..255, byte strings are sequences of bytes, a CAN   *)
(* frame is the byte string of its data field.  Python's None result of a  *)
(* byte-string function is the value None below, which is no byte string.  *)
(*                                                                         *)
(* Execution contexts: "caller" is the thread of the application,          *)
(* "keepalive" the TesterPresent thread of UDSClient, "peer" the thread of *)
(* a second station that runs ISOTPHandler.receive on its own wrapper.     *)
(* Handler "A" is the wrapper/ISO-TP handler of the tester (used by        *)
(* caller and keepalive), handler "B" the one of the peer.                 *)
(*                                                                         *)
(* Specifications:                                                         *)
(*   Spec            the UDS client used by one thread, and the ECU        *)
(*   SpecKeepAlive   the UDS client, its keep-alive thread, and the ECU    *)
(*   SpecIsotp       send on one station, receive on the other             *)
(*   SpecReassembly  receive fed with arbitrary frames                     *)
(*   SpecTesterPresent  the keep-alive thread alone, and the ECU           *)
(*   SpecQueue       _read_loop and get_queued_messages of J2534Wrapper    *)
(*   SpecRetry       ErrorHandler.retry_with_recovery                      *)
(*   SpecFacade      HarleyDiagnostics.connect and disconnect              *)
(*   SpecStatus      the PassThru calls of J2534Wrapper and their status   *)
(*   SpecHistory     ErrorHandler.handle_error called from several threads *)
(*   SpecAbandoned   receive called again after a reassembly was given up  *)
(*   SpecFlowControl send of several frames, and the Flow Control of the ECU *)
(*   SpecLoops       the loops of the keep-alive and the drain thread      *)
(*   FairLoops       SpecLoops with threads that keep being scheduled      *)
(*   SpecReconnect   SpecFacade with connect called again                  *)
(*   SpecSession     connect from its request for the extended session     *)
(*   SpecLate        the UDS client started with frames in the queue       *)
(***************************************************************************)
EXTENDS Naturals, Integers, Sequences, FiniteSets, TLC

VARIABLES
    message_queue,   \* [handler -> frames]  J2534Wrapper._message_queue (frames of the handler's response id)
                     \* in SpecQueue: the queue itself, a sequence of <<CAN id, data>> messages
    bus,             \* [handler -> frames]  frames written by the handler, not yet read by the other side's PassThruReadMsgs
    error_history,   \* global_error_handler.error_history
    current_session, \* UDSClient.current_session
    stop_tester_present, \* UDSClient._stop_tester_present (Event)
    pc,              \* [context -> position in the code]
    tx,              \* [context -> locals of ISOTPHandler.send]
    rx,              \* [context -> locals of ISOTPHandler.receive / _receive_multi_frame]
    uds,             \* [context -> locals of UDSClient.send_request and of the service method above it]
    ecu_sent,        \* number of frames the environment (ECU) has put on the bus
    calls,           \* number of top-level operations the caller has started
    ka_rounds,       \* number of iterations the keep-alive loop has started
    write_failed,    \* number of calls of PassThruWriteMsgs that returned an error
    read_log,        \* the (CAN id, data) messages PassThruReadMsgs has returned to _read_loop, in order
    handed,          \* [CAN id -> the data get_queued_messages has returned, in order]
    facade,          \* the fields of HarleyDiagnostics
    wrapper,         \* the fields of the J2534Wrapper that HarleyDiagnostics.j2534 refers to
    threads,         \* the keep-alive thread of HarleyDiagnostics.uds and the drain thread of the wrapper
    conn,            \* the locals of HarleyDiagnostics.connect / disconnect and the position in them
    retry,           \* the locals of ErrorHandler.retry_with_recovery
    passthru,        \* the calls of PassThru functions made through J2534Wrapper, with what each led to
    error_counts,    \* global_error_handler.error_counts
    handling,        \* [thread -> locals of ErrorHandler.handle_error and the position in it]
    rx_log,          \* what the calls of ISOTPHandler.receive that returned have returned, in order
    adapter,         \* what the PassThru DLL holds open: devices, channels, and filters on the wrapper's channel
    loops            \* [thread -> position in _tester_present_loop / _read_loop, and what happened in it]

vars == <<message_queue, bus, error_history, current_session, stop_tester_present,
          pc, tx, rx, uds, ecu_sent, calls, ka_rounds, write_failed, read_log, handed,
          facade, wrapper, threads, conn, retry, passthru, error_counts, handling,
          rx_log, adapter, loops>>

\* the variables only the specifications of single functions use
status_vars == <<passthru>>
history_vars == <<error_counts, handling>>
receive_vars == <<rx_log>>
adapter_vars == <<adapter>>
loop_vars == <<loops>>
more_vars == <<status_vars, history_vars, receive_vars, adapter_vars, loop_vars>>

\* the variables the ISO-TP handler and the UDS client do not touch
other_vars == <<read_log, handed, facade, wrapper, threads, conn, retry, more_vars>>

Contexts == {"caller", "keepalive", "peer"}
Handlers == {"A", "B"}
HandlerOf(c) == IF c = "peer" THEN "B" ELSE "A"
PeerOf(h) == IF h = "A" THEN "B" ELSE "A"

None == <<-1>>

---------------------------------------------------------------------------
(* Bounds of the model                                                     *)

MaxLen == 8          \* every byte string over Alphabet up to this length is an input of send
MaxEcuFrames == 2    \* frames the environment may put on the bus in one behaviour
MaxCalls == 1        \* top-level operations of the caller in one behaviour
MaxKeepAlive == 1    \* iterations of the keep-alive loop in one behaviour
MaxFuzzFrames == 3   \* frames of FuzzFrames the environment may put on the bus in one behaviour
MaxWriteFail == 1    \* calls of PassThruWriteMsgs that return an error in one behaviour
MaxCfFail == 1       \* a failing write of a Consecutive Frame is one of the first MaxCfFail + 1
MaxRead == 4         \* messages PassThruReadMsgs returns to the drain thread in one behaviour
MaxBatch == 2        \* messages one call of PassThruReadMsgs returns
MaxRetryAttempts == 3 \* the largest max_attempts given to retry_with_recovery
MaxDelay == 2        \* the largest initial_delay given to retry_with_recovery
MaxFactor == 2       \* the largest backoff_factor given to retry_with_recovery
MaxAttempts == 2     \* the largest config.MAX_RETRY_ATTEMPTS
MaxFacadeCalls == 2  \* calls of connect and disconnect by the application in one behaviour
MaxFailures == 2     \* steps of connect and disconnect that fail in one behaviour
MaxPassThruCalls == 2  \* calls of wrapper methods in one behaviour of SpecStatus
MaxHandled == 3      \* calls of handle_error in one behaviour of SpecHistory
MaxReceives == 3     \* calls of receive in one behaviour of SpecAbandoned
MaxIterations == 2   \* iterations each of the two loop threads starts in one behaviour

---------------------------------------------------------------------------
(* Program constants                                                       *)

SINGLE_FRAME == 0
FIRST_FRAME == 1
CONSECUTIVE_FRAME == 2
FLOW_CONTROL == 3
FC_CONTINUE == 0
FC_WAIT == 1
FC_OVERFLOW == 2
ISO_TP_BS == 0
ISO_TP_STMIN == 0
MAX_ISOTP_LEN == 4095
READ_MAX_MSGS == 10
UDS_REQUEST_ID == 2016
UDS_RESPONSE_ID == 2024
OTHER_RESPONSE_ID == 2025

STATUS_NOERROR == 0
ERR_INVALID_CHANNEL_ID == 2
ERR_DEVICE_NOT_CONNECTED == 8
ERR_TIMEOUT == 9
ERR_INVALID_DEVICE_ID == 26
ERR_FAILED == 7
ERR_BUFFER_EMPTY == 16

DIAGNOSTIC_SESSION_CONTROL == 16    \* 0x10
READ_DATA_BY_IDENTIFIER == 34       \* 0x22
TESTER_PRESENT == 62                \* 0x3E
DEFAULT_SESSION == 1
EXTENDED_DIAGNOSTIC_SESSION == 3
POSITIVE_RESPONSE_OFFSET == 64      \* 0x40
NEGATIVE_RESPONSE == 127            \* 0x7F
NRC_RESPONSE_PENDING == 120         \* 0x78
MAX_SEND_ATTEMPTS == 2
DID_VIN == 61840                    \* 0xF190

---------------------------------------------------------------------------
(* The message queue with its CAN ids                                      *)

\* the CAN ids of the messages PassThruReadMsgs returns
CanIds == {UDS_RESPONSE_ID, OTHER_RESPONSE_ID}

\* HarleyDiagnostics.__init__
FacadeNew(auto_detect_can_ids) ==
    [j2534 |-> FALSE, isotp |-> FALSE, uds |-> FALSE, connected |-> FALSE,
     auto_detect_can_ids |-> auto_detect_can_ids, working_can_ids |-> None]

\* the threads that run a loop until an event is set: _tester_present_loop of
\* UDSClient and _read_loop of J2534Wrapper
LoopThreads == {"keepalive", "drain"}

\* a thread that has not been started
LoopNew == [pc |-> "none", iterations |-> 0, caught |-> 0, seen_set |-> FALSE]

\* nothing is open in the PassThru DLL.  PassThruOpen, PassThruConnect and
\* PassThruStartMsgFilter that return STATUS_NOERROR open a device, a channel, a
\* filter; PassThruDisconnect and PassThruClose release the channel (with its
\* filters) and the device whatever status they return.
AdapterNew == [devices |-> 0, channels |-> 0, filters |-> 0]

\* J2534Wrapper.__init__: no device, no channel
WrapperNew == [device_id |-> "None", channel_id |-> "None", stop_reading |-> FALSE]

\* no keep-alive thread and no drain thread
ThreadsNew == [keepalive |-> "None", drain |-> "None"]

\* no call of connect or disconnect in progress
ConnIdle ==
    [pc |-> "idle", op |-> "none", MAX_RETRY_ATTEMPTS |-> 0, calls |-> 0,
     connection_attempts |-> 0, exception |-> "none", severity |-> "none",
     category |-> "none", delays |-> <<>>, result |-> "none", after |-> "idle",
     steps |-> <<>>, entry |-> <<>>, at_disconnect |-> "none",
     candidate |-> 0, tried |-> <<>>, can_ids |-> None, vin |-> None,
     fatal_at |-> 0, failures |-> 0]

\* the categories of errors that occur in the model
ErrorCategory == {"HARDWARE", "TIMEOUT", "PROTOCOL"}

\* the threads that call handle_error: of the application, of the keep-alive
\* loop, and of _read_loop
HandlerThreads == {"caller", "keepalive", "drain"}

\* no call of handle_error in progress
HandlingIdle == [pc |-> "idle", category |-> "HARDWARE", count |-> 0]

\* no call of retry_with_recovery in progress
RetryIdle ==
    [pc |-> "idle", max_attempts |-> 0, initial_delay |-> 0, backoff_factor |-> 0,
     error_category |-> "UNKNOWN", attempt |-> 0, delay |-> 0, delays |-> <<>>,
     outcomes |-> <<>>, severities |-> <<>>, result |-> "none", raised |-> <<>>]

\* nothing read, nothing handed out, no facade in use
OtherInit ==
    /\ read_log = <<>>
    /\ handed = [id \in CanIds |-> <<>>]
    /\ facade = FacadeNew(FALSE)
    /\ wrapper = WrapperNew
    /\ threads = ThreadsNew
    /\ conn = ConnIdle
    /\ retry = RetryIdle
    /\ passthru = <<>>
    /\ error_counts = [category \in ErrorCategory |-> 0]
    /\ handling = [t \in HandlerThreads |-> HandlingIdle]
    /\ rx_log = <<>>
    /\ adapter = AdapterNew
    /\ loops = [t \in LoopThreads |-> LoopNew]

---------------------------------------------------------------------------
(* Byte strings                                                            *)

Min(a, b) == IF a < b THEN a ELSE b

Zeros(n) == [i \in 1..n |-> 0]

\* Python s[a:b] for 0 <= a <= b
Slice(s, a, b) == SubSeq(s, a + 1, Min(b, Len(s)))

\* a frame left as short as it is
Pad8None(f) == f

\* frame_data += bytes([0x00] * (8 - len(frame_data))) when shorter than 8
Pad8(f) == IF Len(f) < 8 THEN f \o Zeros(8 - Len(f)) ELSE f

FrameType(f) == (f[1] \div 16) % 16
LowNibble(f) == f[1] % 16

---------------------------------------------------------------------------
(* Error handler                                                           *)

Err(cat, sev, msg, desc, code) ==
    [category |-> cat, severity |-> sev, message |-> msg, desc |-> desc, code |-> code]

\* ErrorHandler.handle_error: the DiagnosticError appended to the history
HandleError(hist, e) == Append(hist, e)

\* J2534Wrapper._check_error: the error recorded for a non-zero status
CheckError(status, function_name) ==
    IF status = ERR_DEVICE_NOT_CONNECTED
        THEN Err("HARDWARE", "CRITICAL", function_name, "", status)
    ELSE IF status = ERR_TIMEOUT
        THEN Err("TIMEOUT", "RECOVERABLE", function_name, "", status)
    ELSE IF status = ERR_INVALID_CHANNEL_ID \/ status = ERR_INVALID_DEVICE_ID
        THEN Err("CONFIGURATION", "CRITICAL", function_name, "", status)
    ELSE Err("HARDWARE", "RECOVERABLE", function_name, "", status)

\* statuses PassThruWriteMsgs returns in the model
WriteStatuses == {STATUS_NOERROR, ERR_TIMEOUT}

\* the count of failed writes after PassThruWriteMsgs returned status
WriteOutcome(status) ==
    IF status = STATUS_NOERROR THEN UNCHANGED write_failed
    ELSE write_failed < MaxWriteFail /\ write_failed' = write_failed + 1

\* J2534Wrapper.write_message: the history after the call
WriteHistory(hist, status) ==
    IF status = STATUS_NOERROR THEN hist
    ELSE HandleError(hist, CheckError(status, "PassThruWriteMsgs"))

---------------------------------------------------------------------------
(* ISO-TP: segmentation (ISOTPHandler.send)                                *)

\* _send_single_frame: the frame written
SingleFrame(data) == Pad8(<<SINGLE_FRAME * 16 + Len(data)>> \o data)

\* _send_multi_frame: the First Frame written
FirstFrame(data) ==
    <<FIRST_FRAME * 16 + ((Len(data) \div 256) % 16), Len(data) % 256>> \o Slice(data, 0, 6)

\* the sequence number of the Consecutive Frame after one numbered seq
NextSeq(seq) == (seq + 1) % 16

\* CfChunk with the slice one byte short
CfChunkShort(remaining_data, offset) == Slice(remaining_data, offset, offset + 6)

\* the bytes one Consecutive Frame carries
CfChunk(remaining_data, offset) == Slice(remaining_data, offset, offset + 7)

\* _send_multi_frame: one Consecutive Frame
ConsecutiveFrame(seq_num, remaining_data, offset) ==
    Pad8(<<CONSECUTIVE_FRAME * 16 + (seq_num % 16)>> \o CfChunk(remaining_data, offset))

\* seq_num after n passes of the while loop that started with seq_num = seq
RECURSIVE SeqAfter(_, _)
SeqAfter(seq, n) ==
    IF seq < 0 \/ n <= 0 THEN seq
    ELSE IF n = 1 THEN NextSeq(seq)
    ELSE SeqAfter(SeqAfter(seq, n \div 2), n - (n \div 2))

\* _send_multi_frame: the Consecutive Frames of the while loop: pass k starts with
\* offset 7 * (k - 1) and the sequence number reached after k - 1 passes from 1
ConsecutiveFrames(remaining_data) ==
    [k \in 1..((Len(remaining_data) + 6) \div 7) |->
        ConsecutiveFrame(SeqAfter(1, k - 1), remaining_data, 7 * (k - 1))]

\* _wait_for_flow_control: the first Flow Control frame of a batch, as <<status>>, or <<>>
RECURSIVE FirstFlowControl(_, _)
FirstFlowControl(messages, i) ==
    IF i > Len(messages) THEN <<>>
    ELSE IF Len(messages[i]) < 1 THEN FirstFlowControl(messages, i + 1)
    ELSE IF FrameType(messages[i]) = FLOW_CONTROL THEN <<LowNibble(messages[i])>>
    ELSE FirstFlowControl(messages, i + 1)

---------------------------------------------------------------------------
(* ISO-TP: reassembly (ISOTPHandler.receive, _receive_multi_frame)         *)
(*                                                                         *)
(* Line 188 of isotp_handler.py holds the body of receive from the test of *)
(* the empty frame to the end of the function as one physical line, its    *)
(* line breaks and quotes written as \n and \": as stored the file is not  *)
(* accepted by Python.  The operators below follow that body with the      *)
(* escapes read as the characters they stand for.                          *)

\* receive: the for loop over one batch, from message i on.  kind "sf": a Single
\* Frame was accepted and data is its payload; "ff": data is a First Frame;
\* "none": the batch holds neither.  n is the number of messages looked at.
RECURSIVE ScanBatch(_, _)
ScanBatch(messages, i) ==
    IF i > Len(messages) THEN [kind |-> "none", data |-> <<>>, n |-> Len(messages)]
    ELSE LET data == messages[i] IN
         IF Len(data) < 1 THEN ScanBatch(messages, i + 1)
         ELSE IF FrameType(data) = SINGLE_FRAME THEN
              LET length == LowNibble(data) IN
              IF length > 7 THEN ScanBatch(messages, i + 1)
              ELSE IF Len(data) < 1 + length THEN ScanBatch(messages, i + 1)
              ELSE [kind |-> "sf", data |-> Slice(data, 1, 1 + length), n |-> i]
         ELSE IF FrameType(data) = FIRST_FRAME THEN [kind |-> "ff", data |-> data, n |-> i]
         ELSE ScanBatch(messages, i + 1)

\* _receive_multi_frame: total_length of a First Frame (of at least two bytes)
TotalLength(first_frame_data) == LowNibble(first_frame_data) * 256 + first_frame_data[2]

\* _receive_multi_frame: the Flow Control frame written
FlowControlFrame == Pad8(<<FLOW_CONTROL * 16 + FC_CONTINUE, ISO_TP_BS, ISO_TP_STMIN>>)

\* _receive_multi_frame: chunk_len
ChunkLen(remaining) == Min(7, remaining)

\* Assembled with the comparison off by one
AssembledEarly(payload, total_length) == Len(payload) + 1 >= total_length

\* _receive_multi_frame: the test that ends the reassembly
Assembled(payload, total_length) == Len(payload) >= total_length

\* _receive_multi_frame: the body of the for loop for one message, on the locals
\* st = [payload, expected_seq, done, warned]; done when the return inside the
\* loop has been taken; warned counts the sequence-number warnings logged.
CollectStep(st, data, total_length) ==
    IF st.done \/ Len(data) < 1 THEN st
    ELSE IF FrameType(data) = CONSECUTIVE_FRAME THEN
         LET seq_num   == LowNibble(data)
             chunk_len == ChunkLen(total_length - Len(st.payload))
             p         == st.payload \o Slice(data, 1, 1 + chunk_len)
         IN  [payload      |-> p,
              expected_seq |-> NextSeq(st.expected_seq),
              done         |-> Assembled(p, total_length),
              warned       |-> IF seq_num # st.expected_seq THEN st.warned + 1 ELSE st.warned]
    ELSE st

\* _receive_multi_frame: the for loop over messages lo..hi of one batch
RECURSIVE CollectBatch(_, _, _, _, _)
CollectBatch(messages, lo, hi, st, total_length) ==
    IF st.done \/ lo > hi THEN st
    ELSE IF lo = hi THEN CollectStep(st, messages[lo], total_length)
    ELSE LET mid == (lo + hi) \div 2 IN
         CollectBatch(messages, mid + 1, hi,
                      CollectBatch(messages, lo, mid, st, total_length), total_length)

---------------------------------------------------------------------------
(* Locals of the calls in progress                                         *)

TxIdle == [data |-> <<>>, result |-> FALSE]

\* the locals of receive at its entry
RxIdle == [first_frame_data |-> <<>>, payload |-> <<>>, total_length |-> 0, expected_seq |-> 0,
           received_frames |-> 0, warned |-> 0, result |-> None, exit |-> "none"]

\* no error
NoError == [category |-> "none", severity |-> "none", message |-> "", desc |-> "", code |-> 0]

\* the locals of a service method of UDSClient and of its send_request
UdsIdle == [op |-> "none", sid |-> 0, did |-> 0, session_type |-> 0, suppress |-> FALSE,
            attempt |-> 0, requests |-> 0, written |-> 0, first |-> "none",
            send_attempts |-> 0, response |-> None, out |-> "none", value |-> None,
            raised |-> FALSE, error |-> NoError, result |-> None, ok |-> FALSE,
            ended |-> "none"]

SendFailedError == Err("PROTOCOL", "RECOVERABLE", "isotp send failed", "", 0)

\* the position after ISOTPHandler.send returned
SendReturn(c, ok) ==
    /\ pc' = [pc EXCEPT ![c] = "send_ret"]
    /\ tx' = [tx EXCEPT ![c].result = ok]

\* the position after ISOTPHandler.receive returned
RecvReturn(c, r) ==
    /\ pc' = [pc EXCEPT ![c] = "recv_ret"]
    /\ rx' = r

---------------------------------------------------------------------------
(* The drain thread and the environment                                    *)

\* J2534Wrapper._read_loop: one iteration in which read_messages returned messages
ReadLoop(h) ==
    LET n == Min(READ_MAX_MSGS, Len(bus[PeerOf(h)])) IN
    /\ n > 0
    /\ message_queue' = [message_queue EXCEPT ![h] = @ \o SubSeq(bus[PeerOf(h)], 1, n)]
    /\ bus' = [bus EXCEPT ![PeerOf(h)] = SubSeq(@, n + 1, Len(@))]
    /\ UNCHANGED <<error_history, current_session, stop_tester_present, pc, tx, rx, uds,
                   ecu_sent, calls, ka_rounds, write_failed, other_vars>>

\* J2534Wrapper.get_queued_messages(response_id): the messages handed out
QueuedMessages(h) == message_queue[h]

\* a get_queued_messages that leaves the messages it returns in the queue
QueueAfterGetKept(h) == message_queue

\* J2534Wrapper.get_queued_messages(response_id): the queue left behind
QueueAfterGet(h) == [message_queue EXCEPT ![h] = <<>>]

\* J2534Wrapper._read_loop: one iteration in which read_messages returned frame f,
\* which the ECU had sent
EcuFrameRead(f) ==
    /\ ecu_sent < MaxEcuFrames
    /\ ecu_sent' = ecu_sent + 1
    /\ message_queue' = [message_queue EXCEPT !["A"] = Append(@, f)]
    /\ UNCHANGED <<bus, error_history, current_session, stop_tester_present,
                   pc, tx, rx, uds, calls, ka_rounds, write_failed, other_vars>>

---------------------------------------------------------------------------
(* ISOTPHandler.send                                                       *)

\* a size check that lets every length pass
TooLargeNever(data_len) == FALSE

\* send: data_len > 4095
TooLarge(data_len) == data_len > MAX_ISOTP_LEN

\* send: validation of the data, up to the call of _send_single_frame / _send_multi_frame
IsoSend(c) ==
    /\ pc[c] = "send"
    /\ LET data == tx[c].data IN
       IF data = <<>> THEN
            /\ SendReturn(c, FALSE)
            /\ UNCHANGED error_history
       ELSE IF TooLarge(Len(data)) THEN
            /\ SendReturn(c, FALSE)
            /\ error_history' = HandleError(error_history,
                                    Err("DATA", "WARNING", "data too large for ISO-TP", "", 0))
       ELSE /\ pc' = [pc EXCEPT ![c] = "write_first"]
            /\ UNCHANGED <<tx, error_history>>
    /\ UNCHANGED <<message_queue, bus, current_session, stop_tester_present, rx, uds,
                   ecu_sent, calls, ka_rounds, write_failed, other_vars>>

\* _send_single_frame, or the First Frame of _send_multi_frame: write_message
\* returns with the status of PassThruWriteMsgs
WriteFirst(c, status) ==
    /\ pc[c] = "write_first"
    /\ LET data == tx[c].data
           h    == HandlerOf(c)
           hist == WriteHistory(error_history, status)
       IN  IF status # STATUS_NOERROR THEN
                /\ SendReturn(c, FALSE)
                /\ error_history' = HandleError(hist, SendFailedError)
                /\ UNCHANGED bus
           ELSE IF Len(data) <= 7 THEN
                /\ bus' = [bus EXCEPT ![h] = Append(@, SingleFrame(data))]
                /\ SendReturn(c, TRUE)
                /\ UNCHANGED error_history
           ELSE /\ bus' = [bus EXCEPT ![h] = Append(@, FirstFrame(data))]
                /\ pc' = [pc EXCEPT ![c] = "wait_fc"]
                /\ UNCHANGED <<tx, error_history>>
    /\ UNCHANGED <<message_queue, current_session, stop_tester_present, rx, uds,
                   ecu_sent, calls, ka_rounds, other_vars>>
    /\ WriteOutcome(status)

\* _wait_for_flow_control: one poll that found messages, and what _send_multi_frame
\* does with a Flow Control
WaitFcPoll(c) ==
    /\ pc[c] = "wait_fc"
    /\ QueuedMessages(HandlerOf(c)) # <<>>
    /\ message_queue' = QueueAfterGet(HandlerOf(c))
    /\ LET fc == FirstFlowControl(QueuedMessages(HandlerOf(c)), 1) IN
       IF fc = <<>> THEN UNCHANGED <<pc, tx, error_history>>
       ELSE IF fc[1] = FC_CONTINUE THEN
            /\ pc' = [pc EXCEPT ![c] = "send_cf"]
            /\ UNCHANGED <<tx, error_history>>
       ELSE /\ SendReturn(c, FALSE)
            /\ error_history' = HandleError(error_history, SendFailedError)
    /\ UNCHANGED <<bus, current_session, stop_tester_present, rx, uds,
                   ecu_sent, calls, ka_rounds, write_failed, other_vars>>

\* _wait_for_flow_control: the timeout passed without a Flow Control
WaitFcTimeout(c) ==
    /\ pc[c] = "wait_fc"
    /\ SendReturn(c, FALSE)
    /\ error_history' = HandleError(error_history, SendFailedError)
    /\ UNCHANGED <<message_queue, bus, current_session, stop_tester_present, rx, uds,
                   ecu_sent, calls, ka_rounds, write_failed, other_vars>>

\* _send_multi_frame: the Consecutive Frames of a payload
AllConsecutiveFrames(data) == ConsecutiveFrames(Slice(data, 6, Len(data)))

\* _send_multi_frame: the while loop, every write_message succeeding
SendConsecutive(c) ==
    /\ pc[c] = "send_cf"
    /\ bus' = [bus EXCEPT ![HandlerOf(c)] = @ \o AllConsecutiveFrames(tx[c].data)]
    /\ SendReturn(c, TRUE)
    /\ UNCHANGED <<message_queue, error_history, current_session, stop_tester_present,
                   rx, uds, ecu_sent, calls, ka_rounds, write_failed, other_vars>>

\* _send_multi_frame: the while loop, write_message failing on frame k + 1
SendConsecutiveFail(c, k, status) ==
    /\ pc[c] = "send_cf"
    /\ status # STATUS_NOERROR
    /\ LET frames == AllConsecutiveFrames(tx[c].data) IN
       /\ k < Len(frames)
       /\ bus' = [bus EXCEPT ![HandlerOf(c)] = @ \o SubSeq(frames, 1, k)]
    /\ SendReturn(c, FALSE)
    /\ error_history' = HandleError(WriteHistory(error_history, status), SendFailedError)
    /\ UNCHANGED <<message_queue, current_session, stop_tester_present,
                   rx, uds, ecu_sent, calls, ka_rounds, other_vars>>
    /\ WriteOutcome(status)

---------------------------------------------------------------------------
(* ISOTPHandler.receive                                                    *)

\* receive: one poll that found messages; on a First Frame the start of
\* _receive_multi_frame, whose write_message returns with status
RecvPoll(c, status) ==
    /\ pc[c] = "recv"
    /\ QueuedMessages(HandlerOf(c)) # <<>>
    /\ message_queue' = QueueAfterGet(HandlerOf(c))
    /\ LET h    == HandlerOf(c)
           scan == ScanBatch(QueuedMessages(h), 1)
           r    == [rx[c] EXCEPT !.received_frames = @ + scan.n]
       IN  /\ scan.kind # "ff" => status = STATUS_NOERROR
           /\ IF scan.kind = "none" THEN
                   /\ rx' = [rx EXCEPT ![c] = r]
                   /\ UNCHANGED <<pc, bus, error_history>>
              ELSE IF scan.kind = "sf" THEN
                   /\ RecvReturn(c, [rx EXCEPT ![c] = [r EXCEPT !.result = scan.data, !.exit = "sf"]])
                   /\ UNCHANGED <<bus, error_history>>
              ELSE IF Len(scan.data) < 2 THEN
                   \* first_frame_data[1] raises IndexError, caught in receive
                   /\ status = STATUS_NOERROR
                   /\ RecvReturn(c, [rx EXCEPT ![c] = [r EXCEPT !.exit = "exception"]])
                   /\ error_history' = HandleError(error_history,
                                           Err("PROTOCOL", "RECOVERABLE", "multi-frame receive error", "", 0))
                   /\ UNCHANGED bus
              ELSE LET total   == TotalLength(scan.data)
                       payload == Slice(scan.data, 2, 8)
                       m       == [r EXCEPT !.first_frame_data = scan.data,
                                            !.total_length = total, !.payload = payload,
                                            !.expected_seq = 1]
                   IN  IF status # STATUS_NOERROR THEN
                            /\ RecvReturn(c, [rx EXCEPT ![c] = [m EXCEPT !.exit = "fc_write"]])
                            /\ error_history' = WriteHistory(error_history, status)
                            /\ UNCHANGED bus
                       ELSE /\ bus' = [bus EXCEPT ![h] = Append(@, FlowControlFrame)]
                            /\ UNCHANGED error_history
                            /\ IF Assembled(payload, total)
                                   THEN RecvReturn(c, [rx EXCEPT ![c] =
                                            [m EXCEPT !.result = Slice(payload, 0, total),
                                                      !.exit = "multi"]])
                                   ELSE /\ pc' = [pc EXCEPT ![c] = "recv_cf"]
                                        /\ rx' = [rx EXCEPT ![c] = m]
    /\ UNCHANGED <<current_session, stop_tester_present, tx, uds, ecu_sent, calls, ka_rounds,
                   other_vars>>
    /\ WriteOutcome(status)

\* receive: the timeout passed
RecvTimeout(c) ==
    /\ pc[c] = "recv"
    /\ RecvReturn(c, [rx EXCEPT ![c].exit = "timeout"])
    /\ error_history' =
           IF rx[c].received_frames = 0
               THEN HandleError(error_history,
                        Err("TIMEOUT", "RECOVERABLE", "no CAN frame received", "", 0))
               ELSE error_history
    /\ UNCHANGED <<message_queue, bus, current_session, stop_tester_present, tx, uds,
                   ecu_sent, calls, ka_rounds, write_failed, other_vars>>

\* _receive_multi_frame: one poll of the while loop that found messages
RecvCfPoll(c) ==
    /\ pc[c] = "recv_cf"
    /\ QueuedMessages(HandlerOf(c)) # <<>>
    /\ message_queue' = QueueAfterGet(HandlerOf(c))
    /\ LET got == CollectBatch(QueuedMessages(HandlerOf(c)), 1, Len(QueuedMessages(HandlerOf(c))),
                               [payload |-> rx[c].payload, expected_seq |-> rx[c].expected_seq,
                                done |-> FALSE, warned |-> rx[c].warned],
                               rx[c].total_length)
           m   == [rx[c] EXCEPT !.payload = got.payload, !.expected_seq = got.expected_seq,
                                !.warned = got.warned]
       IN  IF got.done
               THEN RecvReturn(c, [rx EXCEPT ![c] =
                        [m EXCEPT !.result = Slice(got.payload, 0, rx[c].total_length),
                                  !.exit = "multi"]])
               ELSE /\ rx' = [rx EXCEPT ![c] = m]
                    /\ UNCHANGED pc
    /\ UNCHANGED <<bus, error_history, current_session, stop_tester_present, tx, uds,
                   ecu_sent, calls, ka_rounds, write_failed, other_vars>>

\* _receive_multi_frame: the timeout passed while Consecutive Frames were awaited
RecvCfTimeout(c) ==
    /\ pc[c] = "recv_cf"
    /\ RecvReturn(c, [rx EXCEPT ![c].exit = "cf_timeout"])
    /\ UNCHANGED <<message_queue, bus, error_history, current_session, stop_tester_present,
                   tx, uds, ecu_sent, calls, ka_rounds, write_failed, other_vars>>

---------------------------------------------------------------------------
(* Segmentation and reassembly between two stations                        *)

Alphabet == {0, 170}

RECURSIVE Strings(_)
Strings(n) ==
    IF n = 0 THEN {<<>>}
    ELSE LET shorter == Strings(n - 1) IN
         shorter \cup {Append(s, b) : s \in {t \in shorter : Len(t) = n - 1}, b \in Alphabet}

\* a byte string of length n whose bytes differ from place to place
Pattern(n) == [i \in 1..n |-> (i * 37 + 11) % 256]

LongLengths == {13, 14, 111, 112, 118, 4095, 4096}

SendInputs == Strings(MaxLen) \cup {Pattern(n) : n \in LongLengths}

InitIsotp ==
    /\ message_queue = [h \in Handlers |-> <<>>]
    /\ bus = [h \in Handlers |-> <<>>]
    /\ error_history = <<>>
    /\ current_session = DEFAULT_SESSION
    /\ stop_tester_present = FALSE
    /\ \E data \in SendInputs :
           tx = [c \in Contexts |-> IF c = "caller" THEN [TxIdle EXCEPT !.data = data] ELSE TxIdle]
    /\ pc = [c \in Contexts |-> CASE c = "caller" -> "send"
                                  [] c = "peer" -> "recv"
                                  [] OTHER -> "off"]
    /\ rx = [c \in Contexts |-> RxIdle]
    /\ uds = [c \in Contexts |-> UdsIdle]
    /\ ecu_sent = 0
    /\ calls = 0
    /\ ka_rounds = 0
    /\ write_failed = 0
    /\ OtherInit

NextIsotp ==
    \/ IsoSend("caller")
    \/ \E status \in WriteStatuses : WriteFirst("caller", status)
    \/ WaitFcPoll("caller")
    \/ WaitFcTimeout("caller")
    \/ SendConsecutive("caller")
    \/ \E k \in 0..MaxCfFail, status \in WriteStatuses :
           SendConsecutiveFail("caller", k, status)
    \/ \E status \in WriteStatuses : RecvPoll("peer", status)
    \/ RecvTimeout("peer")
    \/ RecvCfPoll("peer")
    \/ RecvCfTimeout("peer")
    \/ \E h \in Handlers : ReadLoop(h)

SpecIsotp == InitIsotp /\ [][NextIsotp]_vars

\* C2: whenever the peer's receive returns a payload, it is the byte string given
\* to send; and once send has succeeded, its frames have all been read and the
\* peer's receive has neither timed out nor failed to write its Flow Control,
\* the peer's receive has returned exactly that byte string.
C2_RoundTrip ==
    /\ (pc["peer"] = "recv_ret" /\ rx["peer"].result # None)
           => rx["peer"].result = tx["caller"].data
    /\ (/\ pc["caller"] = "send_ret" /\ tx["caller"].result
        /\ bus["A"] = <<>> /\ message_queue["B"] = <<>>
        /\ rx["peer"].exit \notin {"timeout", "cf_timeout", "fc_write"})
           => (pc["peer"] = "recv_ret" /\ rx["peer"].result = tx["caller"].data)

\* a payload of the maximum length (585 Consecutive Frames, the sequence number
\* wrapping 36 times) has been reassembled
C2_Witness ==
    /\ pc["peer"] = "recv_ret"
    /\ Len(tx["caller"].data) = MAX_ISOTP_LEN
    /\ rx["peer"].exit = "multi"
    /\ rx["peer"].result = tx["caller"].data

---------------------------------------------------------------------------
(* Reassembly of arbitrary frames                                          *)

FuzzFrames ==
    { <<16, 0, 1, 2, 3, 4, 5, 6>>,          \* FF, total length 0
      <<16, 3, 1, 2, 3, 4, 5, 6>>,          \* FF, total length 3
      <<16, 8, 1, 2, 3, 4, 5, 6>>,          \* FF, total length 8
      <<16, 10, 1, 2, 3, 4, 5, 6>>,         \* FF, total length 10
      <<16, 10, 1>>,                        \* FF cut short, total length 10
      <<16>>,                               \* FF of one byte
      <<33, 7, 8, 9, 10, 11, 12, 13>>,      \* CF 1
      <<34, 14>>,                           \* CF 2 with one data byte
      <<37>>,                               \* CF 5 without data
      <<2, 98, 99, 0, 0, 0, 0, 0>>,         \* SF of two bytes
      <<48, 0, 0, 0, 0, 0, 0, 0>>,          \* FC
      <<>> }

\* the environment puts frame f of FuzzFrames on the bus
FuzzSend(f) ==
    /\ ecu_sent < MaxFuzzFrames
    /\ ecu_sent' = ecu_sent + 1
    /\ bus' = [bus EXCEPT !["B"] = Append(@, f)]
    /\ UNCHANGED <<message_queue, error_history, current_session, stop_tester_present,
                   pc, tx, rx, uds, calls, ka_rounds, write_failed, other_vars>>

InitReassembly ==
    /\ message_queue = [h \in Handlers |-> <<>>]
    /\ bus = [h \in Handlers |-> <<>>]
    /\ error_history = <<>>
    /\ current_session = DEFAULT_SESSION
    /\ stop_tester_present = FALSE
    /\ tx = [c \in Contexts |-> TxIdle]
    /\ pc = [c \in Contexts |-> IF c = "caller" THEN "recv" ELSE "off"]
    /\ rx = [c \in Contexts |-> RxIdle]
    /\ uds = [c \in Contexts |-> UdsIdle]
    /\ ecu_sent = 0
    /\ calls = 0
    /\ ka_rounds = 0
    /\ write_failed = 0
    /\ OtherInit

NextReassembly ==
    \/ \E f \in FuzzFrames : FuzzSend(f)
    \/ ReadLoop("A")
    \/ \E status \in WriteStatuses : RecvPoll("caller", status)
    \/ RecvTimeout("caller")
    \/ RecvCfPoll("caller")
    \/ RecvCfTimeout("caller")

SpecReassembly == InitReassembly /\ [][NextReassembly]_vars

\* the total length a First Frame declares: the low nibble of byte 0 and byte 1
DeclaredLength(ff) == (ff[1] % 16) * 256 + ff[2]

\* C3: a payload that receive returns from _receive_multi_frame has exactly the
\* number of bytes the First Frame declared.
C3_ExactLength ==
    (pc["caller"] = "recv_ret" /\ rx["caller"].exit = "multi")
        => Len(rx["caller"].result) = DeclaredLength(rx["caller"].first_frame_data)

\* a payload of 10 bytes was reassembled from a First Frame cut short and
\* Consecutive Frames of which one carried a single byte and came out of sequence
C3_Witness ==
    /\ pc["caller"] = "recv_ret" /\ rx["caller"].exit = "multi"
    /\ Len(rx["caller"].first_frame_data) = 8
    /\ DeclaredLength(rx["caller"].first_frame_data) = 10
    /\ rx["caller"].warned > 0
    /\ Len(rx["caller"].result) = 10

---------------------------------------------------------------------------
(* UDSClient.send_request                                                  *)

Clients == {"caller", "keepalive"}

\* request = bytes([service_id]) + data
Request(service_id, data) == <<service_id>> \o data

\* the locals of send_request at its entry, in the locals u of the service method
EnterRequest(u) ==
    [u EXCEPT !.requests = @ + 1, !.send_attempts = 0, !.response = None, !.out = "none",
              !.value = None, !.raised = FALSE, !.error = NoError]

\* NRC_DESCRIPTIONS.get(nrc, "Unknown NRC: ...")
NrcDescription(nrc) ==
    CASE nrc = 16  -> "General reject"
      [] nrc = 17  -> "Service not supported"
      [] nrc = 18  -> "Sub-function not supported"
      [] nrc = 19  -> "Incorrect message length or invalid format"
      [] nrc = 34  -> "Conditions not correct"
      [] nrc = 49  -> "Request out of range"
      [] nrc = 51  -> "Security access denied"
      [] nrc = 53  -> "Invalid key"
      [] nrc = 54  -> "Exceeded number of attempts"
      [] nrc = 55  -> "Required time delay not expired"
      [] nrc = 120 -> "Request correctly received but response is pending"
      [] OTHER     -> "Unknown NRC"

\* NrcSeverity without the case of the pending response
NrcSeverityFlat(nrc) == "RECOVERABLE"

\* severity = ErrorSeverity.WARNING if nrc == 0x78 else ErrorSeverity.RECOVERABLE
NrcSeverity(nrc) == IF nrc = NRC_RESPONSE_PENDING THEN "WARNING" ELSE "RECOVERABLE"

\* IsPositive that takes every first byte but 0x7F
IsPositiveLoose(service_id, response_sid) == response_sid # NEGATIVE_RESPONSE

\* response_sid == service_id + POSITIVE_RESPONSE_OFFSET
IsPositive(service_id, response_sid) == response_sid = service_id + POSITIVE_RESPONSE_OFFSET

\* send_request after receive returned response: the branch taken (out), the value
\* returned, whether UDSException is raised, the error handed to handle_error
Classify(service_id, response) ==
    IF response = None THEN
        [out |-> "timeout", value |-> None, raised |-> FALSE,
         error |-> Err("TIMEOUT", "RECOVERABLE", "timeout waiting for UDS response", "", 0)]
    ELSE IF Len(response) < 1 THEN
        [out |-> "empty", value |-> None, raised |-> FALSE, error |-> NoError]
    ELSE IF IsPositive(service_id, response[1]) THEN
        [out |-> "positive", value |-> Slice(response, 1, Len(response)), raised |-> FALSE,
         error |-> NoError]
    ELSE IF response[1] = NEGATIVE_RESPONSE THEN
        IF Len(response) >= 3 THEN
            [out |-> "negative", value |-> None, raised |-> TRUE,
             error |-> Err("PROTOCOL", NrcSeverity(response[3]), "Negative response",
                           NrcDescription(response[3]), response[3])]
        ELSE [out |-> "malformed", value |-> None, raised |-> FALSE, error |-> NoError]
    ELSE [out |-> "unexpected", value |-> response, raised |-> FALSE, error |-> NoError]

\* send_request: isotp.send returned; the retry of the send, or the call of receive
AfterSend(c) ==
    /\ pc[c] = "send_ret"
    /\ uds[c].op # "none"
    /\ IF tx[c].result THEN
            /\ pc' = [pc EXCEPT ![c] = "recv"]
            /\ rx' = [rx EXCEPT ![c] = RxIdle]
            /\ uds' = [uds EXCEPT ![c].written = @ + 1]
            /\ UNCHANGED error_history
       ELSE IF uds[c].send_attempts + 1 < MAX_SEND_ATTEMPTS THEN
            /\ pc' = [pc EXCEPT ![c] = "send"]
            /\ uds' = [uds EXCEPT ![c].send_attempts = @ + 1]
            /\ UNCHANGED <<rx, error_history>>
       ELSE /\ pc' = [pc EXCEPT ![c] = "req_ret"]
            /\ uds' = [uds EXCEPT ![c].send_attempts = @ + 1, ![c].out = "send_failed"]
            /\ error_history' = HandleError(error_history,
                                    Err("PROTOCOL", "RECOVERABLE", "UDS request not sent", "", 0))
            /\ UNCHANGED rx
    /\ UNCHANGED <<message_queue, bus, current_session, stop_tester_present, tx,
                   ecu_sent, calls, ka_rounds, write_failed, other_vars>>

\* send_request: isotp.receive returned; the classification of the response
SendRequestReturn(c) ==
    /\ pc[c] = "recv_ret"
    /\ uds[c].op # "none"
    /\ LET r == Classify(uds[c].sid, rx[c].result) IN
       /\ uds' = [uds EXCEPT ![c].response = rx[c].result, ![c].out = r.out,
                             ![c].value = r.value, ![c].raised = r.raised,
                             ![c].error = r.error]
       /\ error_history' = IF r.error = NoError THEN error_history
                           ELSE HandleError(error_history, r.error)
    /\ pc' = [pc EXCEPT ![c] = "req_ret"]
    /\ UNCHANGED <<message_queue, bus, current_session, stop_tester_present, tx, rx,
                   ecu_sent, calls, ka_rounds, write_failed, other_vars>>

---------------------------------------------------------------------------
(* UDSClient.read_data_by_identifier                                       *)

\* did_bytes = bytes([did >> 8, did & 0xFF])
DidBytes(did) == <<did \div 256, did % 256>>

\* the DIDs the caller reads: the VIN, and a DID out of range
Dids == {DID_VIN, 65536}

\* _read_attempt after send_request: the exception that ends the attempt, "none" if none
ReadAttemptFailure(did, raised, response) ==
    IF raised THEN "uds_exception"
    ELSE IF response = None THEN "no_response"
    ELSE IF Len(response) < 2 THEN "short"
    ELSE IF response[1] * 256 + response[2] # did THEN "did_mismatch"
    ELSE "none"

\* ShouldRetry that takes UDSException for a transient error
ShouldRetryAny(failure, attempt) == attempt = 1

\* read_data_by_identifier: whether a failed attempt is followed by another one
ShouldRetry(failure, attempt) == attempt = 1 /\ failure # "uds_exception"

\* how read_data_by_identifier ends after its last attempt: with the data, or,
\* every exception of an attempt being caught (UDSException by the inner and the
\* outer handler, any other by the handlers of Exception), with None
ReadEnd(failure) == "returned"

\* read_data_by_identifier(did), up to the first call of isotp.send
ReadDataByIdentifier(c, did) ==
    /\ pc[c] = "idle"
    /\ calls < MaxCalls
    /\ calls' = calls + 1
    /\ IF did < 0 \/ did > 65535 THEN
            /\ uds' = [uds EXCEPT ![c] = [UdsIdle EXCEPT !.op = "rdbi", !.did = did,
                                                         !.ended = "returned"]]
            /\ error_history' = HandleError(error_history,
                                    Err("DATA", "WARNING", "invalid DID", "", 0))
            /\ UNCHANGED <<pc, tx>>
       ELSE /\ uds' = [uds EXCEPT ![c] = EnterRequest(
                           [UdsIdle EXCEPT !.op = "rdbi", !.sid = READ_DATA_BY_IDENTIFIER,
                                           !.did = did, !.attempt = 1])]
            /\ tx' = [tx EXCEPT ![c] = [data |-> Request(READ_DATA_BY_IDENTIFIER, DidBytes(did)),
                                        result |-> FALSE]]
            /\ pc' = [pc EXCEPT ![c] = "send"]
            /\ UNCHANGED error_history
    /\ UNCHANGED <<message_queue, bus, current_session, stop_tester_present, rx,
                   ecu_sent, ka_rounds, write_failed, other_vars>>

\* read_data_by_identifier: send_request returned to _read_attempt; the data
\* returned, the second attempt, or the end of the call without data
ReadAttemptReturn(c) ==
    /\ pc[c] = "req_ret"
    /\ uds[c].op = "rdbi"
    /\ LET u       == uds[c]
           failure == ReadAttemptFailure(u.did, u.raised, u.value)
       IN  IF failure = "none" THEN
                /\ uds' = [uds EXCEPT ![c].result = Slice(u.value, 2, Len(u.value)),
                                      ![c].ended = ReadEnd(failure)]
                /\ pc' = [pc EXCEPT ![c] = "idle"]
                /\ UNCHANGED <<tx, error_history>>
           ELSE IF ShouldRetry(failure, u.attempt) THEN
                /\ uds' = [uds EXCEPT ![c] = EnterRequest([u EXCEPT !.first = failure,
                                                                    !.attempt = 2])]
                /\ tx' = [tx EXCEPT ![c] = [data |-> Request(READ_DATA_BY_IDENTIFIER, DidBytes(u.did)),
                                            result |-> FALSE]]
                /\ pc' = [pc EXCEPT ![c] = "send"]
                /\ UNCHANGED error_history
           ELSE IF u.attempt = 1 THEN
                /\ uds' = [uds EXCEPT ![c].first = failure, ![c].result = None,
                                      ![c].ended = ReadEnd(failure)]
                /\ pc' = [pc EXCEPT ![c] = "idle"]
                /\ UNCHANGED <<tx, error_history>>
           ELSE /\ uds' = [uds EXCEPT ![c].result = None, ![c].ended = ReadEnd(failure)]
                /\ pc' = [pc EXCEPT ![c] = "idle"]
                /\ error_history' = HandleError(error_history,
                                        Err("DATA", "WARNING", u.first, "", 0))
                /\ UNCHANGED tx
    /\ UNCHANGED <<message_queue, bus, current_session, stop_tester_present, rx,
                   ecu_sent, calls, ka_rounds, write_failed, other_vars>>

---------------------------------------------------------------------------
(* UDSClient.diagnostic_session_control                                    *)

\* diagnostic_session_control(session_type), up to the first call of isotp.send
DiagnosticSessionControl(c, session_type) ==
    /\ pc[c] = "idle"
    /\ calls < MaxCalls
    /\ calls' = calls + 1
    /\ uds' = [uds EXCEPT ![c] = EnterRequest(
                   [UdsIdle EXCEPT !.op = "dsc", !.sid = DIAGNOSTIC_SESSION_CONTROL,
                                   !.session_type = session_type])]
    /\ tx' = [tx EXCEPT ![c] = [data |-> Request(DIAGNOSTIC_SESSION_CONTROL, <<session_type>>),
                                result |-> FALSE]]
    /\ pc' = [pc EXCEPT ![c] = "send"]
    /\ UNCHANGED <<message_queue, bus, error_history, current_session, stop_tester_present,
                   rx, ecu_sent, ka_rounds, write_failed, other_vars>>

\* diagnostic_session_control: send_request returned
SessionControlReturn(c) ==
    /\ pc[c] = "req_ret"
    /\ uds[c].op = "dsc"
    /\ LET done == ~uds[c].raised /\ uds[c].value # None IN
       /\ uds' = [uds EXCEPT ![c].ok = done]
       /\ current_session' = IF done THEN uds[c].session_type ELSE current_session
    /\ pc' = [pc EXCEPT ![c] = "idle"]
    /\ UNCHANGED <<message_queue, bus, error_history, stop_tester_present, tx, rx,
                   ecu_sent, calls, ka_rounds, write_failed, other_vars>>

---------------------------------------------------------------------------
(* UDSClient: TesterPresent and the keep-alive thread                      *)

\* SubFunction that never sets the suppress bit
SubFunctionZero(suppress_response) == 0

\* sub_function = 0x00 if not suppress_response else 0x80
SubFunction(suppress_response) == IF suppress_response THEN 128 ELSE 0

\* start_tester_present: the thread is started unless one is alive
StartTesterPresent ==
    /\ pc["caller"] = "idle"
    /\ pc["keepalive"] \in {"off", "exit"}
    /\ stop_tester_present' = FALSE
    /\ pc' = [pc EXCEPT !["keepalive"] = "loop"]
    /\ UNCHANGED <<message_queue, bus, error_history, current_session, tx, rx, uds,
                   ecu_sent, calls, ka_rounds, write_failed, other_vars>>

\* stop_tester_present: the event is set; join returns when the thread has ended
\* or after its timeout of 2 s
StopTesterPresent ==
    /\ pc["caller"] = "idle"
    /\ pc["keepalive"] # "off"
    /\ ~stop_tester_present
    /\ stop_tester_present' = TRUE
    /\ UNCHANGED <<message_queue, bus, error_history, current_session, pc, tx, rx, uds,
                   ecu_sent, calls, ka_rounds, write_failed, other_vars>>

\* _tester_present_loop: the loop condition fails
TesterPresentLoopExit ==
    /\ pc["keepalive"] = "loop"
    /\ stop_tester_present
    /\ pc' = [pc EXCEPT !["keepalive"] = "exit"]
    /\ UNCHANGED <<message_queue, bus, error_history, current_session, stop_tester_present,
                   tx, rx, uds, ecu_sent, calls, ka_rounds, write_failed, other_vars>>

\* _tester_present_loop: an iteration starts; tester_present(suppress_response=True)
\* up to the first call of isotp.send
TesterPresent ==
    /\ pc["keepalive"] = "loop"
    /\ ~stop_tester_present
    /\ ka_rounds < MaxKeepAlive
    /\ ka_rounds' = ka_rounds + 1
    /\ uds' = [uds EXCEPT !["keepalive"] = EnterRequest(
                   [UdsIdle EXCEPT !.op = "tp", !.sid = TESTER_PRESENT, !.suppress = TRUE])]
    /\ tx' = [tx EXCEPT !["keepalive"] = [data |-> Request(TESTER_PRESENT, <<SubFunction(TRUE)>>),
                                          result |-> FALSE]]
    /\ pc' = [pc EXCEPT !["keepalive"] = "send"]
    /\ UNCHANGED <<message_queue, bus, error_history, current_session, stop_tester_present,
                   rx, ecu_sent, calls, write_failed, other_vars>>

\* tester_present: send_request returned; the loop sleeps and tests its condition again
TesterPresentReturn ==
    /\ pc["keepalive"] = "req_ret"
    /\ uds["keepalive"].op = "tp"
    /\ uds' = [uds EXCEPT !["keepalive"].ok =
                   ~uds["keepalive"].raised
                   /\ (uds["keepalive"].value # None \/ uds["keepalive"].suppress)]
    /\ pc' = [pc EXCEPT !["keepalive"] = "loop"]
    /\ UNCHANGED <<message_queue, bus, error_history, current_session, stop_tester_present,
                   tx, rx, ecu_sent, calls, ka_rounds, write_failed, other_vars>>

---------------------------------------------------------------------------
(* The client and the ECU                                                  *)

\* UDS payloads the ECU answers with, each in a Single Frame
EcuPayloads ==
    { <<98, 241, 144, 65>>,     \* 62 F1 90 41  positive response to 22 F1 90
      <<98, 241, 145, 65>>,     \* 62 F1 91 41  positive response echoing another DID
      <<98>>,                   \* 62           positive response without DID
      <<127, 34, 49>>,          \* 7F 22 31     request out of range
      <<127, 34, 120>>,         \* 7F 22 78     response pending
      <<127, 62, 49>>,          \* 7F 3E 31     negative response to TesterPresent
      <<127, 34>>,              \* 7F 22        negative response without NRC
      <<241, 144, 65>>,         \* F1 90 41     no response SID
      <<80, 3>>,                \* 50 03        positive response to 10 03
      <<>> }                    \*              Single Frame of length 0

\* the state after UDSClient(isotp_handler): no request in progress, no keep-alive thread
Init ==
    /\ message_queue = [h \in Handlers |-> <<>>]
    /\ bus = [h \in Handlers |-> <<>>]
    /\ error_history = <<>>
    /\ current_session = DEFAULT_SESSION
    /\ stop_tester_present = FALSE
    /\ tx = [c \in Contexts |-> TxIdle]
    /\ pc = [c \in Contexts |-> IF c = "caller" THEN "idle" ELSE "off"]
    /\ rx = [c \in Contexts |-> RxIdle]
    /\ uds = [c \in Contexts |-> UdsIdle]
    /\ ecu_sent = 0
    /\ calls = 0
    /\ ka_rounds = 0
    /\ write_failed = 0
    /\ OtherInit

\* the steps of the service methods called by the application thread
CallerNext ==
    \/ \E did \in Dids : ReadDataByIdentifier("caller", did)
    \/ DiagnosticSessionControl("caller", EXTENDED_DIAGNOSTIC_SESSION)
    \/ IsoSend("caller")
    \/ \E status \in WriteStatuses : WriteFirst("caller", status)
    \/ AfterSend("caller")
    \/ RecvPoll("caller", STATUS_NOERROR)
    \/ RecvTimeout("caller")
    \/ SendRequestReturn("caller")
    \/ ReadAttemptReturn("caller")
    \/ SessionControlReturn("caller")

\* the client used by one thread, the keep-alive thread not started
Next ==
    \/ CallerNext
    \/ \E p \in EcuPayloads : EcuFrameRead(SingleFrame(p))

Spec == Init /\ [][Next]_vars

---------------------------------------------------------------------------
(* The client, its keep-alive thread and the ECU                           *)

\* UDS payloads the ECU answers with while the keep-alive thread runs
KeepAlivePayloads ==
    { <<98, 241, 144, 65>>,     \* 62 F1 90 41  positive response to 22 F1 90
      <<127, 62, 49>>,          \* 7F 3E 31     negative response to TesterPresent
      <<80, 3>> }               \* 50 03        positive response to 10 03

\* the steps of the keep-alive thread
KeepAliveNext ==
    \/ TesterPresentLoopExit
    \/ TesterPresent
    \/ IsoSend("keepalive")
    \/ \E status \in WriteStatuses : WriteFirst("keepalive", status)
    \/ AfterSend("keepalive")
    \/ RecvPoll("keepalive", STATUS_NOERROR)
    \/ RecvTimeout("keepalive")
    \/ SendRequestReturn("keepalive")
    \/ TesterPresentReturn

NextKeepAlive ==
    \/ CallerNext
    \/ StartTesterPresent
    \/ StopTesterPresent
    \/ KeepAliveNext
    \/ \E p \in KeepAlivePayloads : EcuFrameRead(SingleFrame(p))

SpecKeepAlive == Init /\ [][NextKeepAlive]_vars

---------------------------------------------------------------------------
(* The keep-alive thread alone                                             *)

\* the keep-alive thread is started and stopped while the application thread
\* makes no request of its own
NextTesterPresent ==
    \/ StartTesterPresent
    \/ StopTesterPresent
    \/ KeepAliveNext
    \/ \E p \in KeepAlivePayloads : EcuFrameRead(SingleFrame(p))

SpecTesterPresent == Init /\ [][NextTesterPresent]_vars

---------------------------------------------------------------------------
(* J2534Wrapper: the drain thread and get_queued_messages                  *)
(* Here message_queue is the list _message_queue itself, of (CAN id, data) *)
(* pairs; the data of the k-th message read is <<k>>.                      *)

\* the (mid, data) pairs of id can_id, in the order of the list
WithId(q, can_id) == SelectSeq(q, LAMBDA m : m[1] = can_id)

\* a filter that keeps the whole list
WithoutIdAll(q, can_id) == q

\* the (mid, data) pairs of another id, in the order of the list
WithoutId(q, can_id) == SelectSeq(q, LAMBDA m : m[1] # can_id)

\* the data of a list of (mid, data) pairs
DataOf(q) == [k \in DOMAIN q |-> q[k][2]]

\* a drain thread that puts what it read in front of the queue
ExtendFront(q, messages) == messages \o q

\* self._message_queue.extend(messages)
Extend(q, messages) == q \o messages

\* the CAN ids of the batches read_messages returns
BatchIds == UNION {[1..n -> CanIds] : n \in 1..MaxBatch}

\* _read_loop: one iteration in which read_messages returned messages with the ids
\* ids; the queue is extended under the lock
ReadLoopBatch(ids) ==
    /\ Len(read_log) + Len(ids) <= MaxRead
    /\ LET messages == [k \in 1..Len(ids) |-> <<ids[k], <<Len(read_log) + k>>>>] IN
       /\ read_log' = read_log \o messages
       /\ message_queue' = Extend(message_queue, messages)
    /\ UNCHANGED <<bus, error_history, current_session, stop_tester_present, pc, tx, rx,
                   uds, ecu_sent, calls, ka_rounds, write_failed, handed,
                   facade, wrapper, threads, conn, retry, more_vars>>

\* get_queued_messages(can_id), under the lock: the messages of can_id are
\* returned and the others kept
GetQueuedMessages(can_id) ==
    /\ message_queue # <<>>
    /\ handed' = [handed EXCEPT ![can_id] = @ \o DataOf(WithId(message_queue, can_id))]
    /\ message_queue' = WithoutId(message_queue, can_id)
    /\ UNCHANGED <<bus, error_history, current_session, stop_tester_present, pc, tx, rx,
                   uds, ecu_sent, calls, ka_rounds, write_failed, read_log,
                   facade, wrapper, threads, conn, retry, more_vars>>

\* get_queued_messages(), under the lock: all messages are returned
GetAllQueuedMessages ==
    /\ message_queue # <<>>
    /\ handed' = [id \in CanIds |-> handed[id] \o DataOf(WithId(message_queue, id))]
    /\ message_queue' = <<>>
    /\ UNCHANGED <<bus, error_history, current_session, stop_tester_present, pc, tx, rx,
                   uds, ecu_sent, calls, ka_rounds, write_failed, read_log,
                   facade, wrapper, threads, conn, retry, more_vars>>

\* the state after J2534Wrapper(): an empty queue
InitQueue ==
    /\ message_queue = <<>>
    /\ bus = [h \in Handlers |-> <<>>]
    /\ error_history = <<>>
    /\ current_session = DEFAULT_SESSION
    /\ stop_tester_present = FALSE
    /\ tx = [c \in Contexts |-> TxIdle]
    /\ pc = [c \in Contexts |-> "off"]
    /\ rx = [c \in Contexts |-> RxIdle]
    /\ uds = [c \in Contexts |-> UdsIdle]
    /\ ecu_sent = 0
    /\ calls = 0
    /\ ka_rounds = 0
    /\ write_failed = 0
    /\ OtherInit

NextQueue ==
    \/ \E ids \in BatchIds : ReadLoopBatch(ids)
    \/ \E can_id \in CanIds : GetQueuedMessages(can_id)
    \/ GetAllQueuedMessages

SpecQueue == InitQueue /\ [][NextQueue]_vars

---------------------------------------------------------------------------
(* ErrorHandler.retry_with_recovery                                        *)

\* what one call of func does: it returns, or it raises a J2534Exception, a
\* DiagnosticError of severity FATAL, or the UDSException of a negative response
FuncOutcomes == {"ok", "J2534Exception", "FatalDiagnosticError", "UDSException"}

\* severity = RECOVERABLE if attempt < max_attempts else CRITICAL
RetrySeverity(attempt, max_attempts) ==
    IF attempt < max_attempts THEN "RECOVERABLE" ELSE "CRITICAL"

\* handle_error(e, severity, error_category): the entry of the history; a
\* DiagnosticError is entered as it is
RetryError(outcome, severity, error_category) ==
    IF outcome = "FatalDiagnosticError"
    THEN Err("CONFIGURATION", "FATAL", outcome, "", 0)
    ELSE Err(error_category, severity, outcome, "", 0)

\* the error raised when all attempts are used up
RetryExhausted(error_category) == Err(error_category, "CRITICAL", "failed after attempts", "", 0)

\* whether func is called again after it raised in the given attempt
RetryAgainOnceMore(outcome, attempt, max_attempts) == attempt <= max_attempts

RetryAgain(outcome, attempt, max_attempts) == attempt < max_attempts

\* the locals at the entry of the loop; error_category is the one open_device
\* passes; raised holds the exception that leaves retry_with_recovery, if any
RetryEntry(max_attempts, initial_delay, backoff_factor) ==
    [RetryIdle EXCEPT !.pc = IF max_attempts >= 1 THEN "call" ELSE "done",
                      !.max_attempts = max_attempts,
                      !.initial_delay = initial_delay,
                      !.backoff_factor = backoff_factor,
                      !.error_category = "HARDWARE",
                      !.raised = IF max_attempts >= 1 THEN <<>>
                                 ELSE <<RetryExhausted("HARDWARE")>>,
                      !.attempt = IF max_attempts >= 1 THEN 1 ELSE 0,
                      !.delay = initial_delay,
                      !.result = IF max_attempts >= 1 THEN "none" ELSE "raised"]

\* one iteration of the loop, in which func ended with outcome
RetryStep(r, outcome) ==
    LET called == [r EXCEPT !.outcomes = Append(@, outcome)] IN
    IF outcome = "ok" THEN
        [called EXCEPT !.pc = "done", !.result = "returned"]
    ELSE LET handled == [called EXCEPT
                 !.severities = Append(@, RetrySeverity(r.attempt, r.max_attempts))] IN
         IF RetryAgain(outcome, r.attempt, r.max_attempts) THEN
             [handled EXCEPT !.delays = Append(@, r.delay),
                             !.delay = r.delay * r.backoff_factor,
                             !.attempt = r.attempt + 1]
         ELSE [handled EXCEPT !.pc = "done", !.result = "raised",
                              !.raised = <<RetryExhausted(r.error_category)>>]

\* the history after one iteration of the loop
RetryHistory(hist, r, outcome, error_category) ==
    IF outcome = "ok" THEN hist
    ELSE HandleError(hist, RetryError(outcome, RetrySeverity(r.attempt, r.max_attempts),
                                      error_category))

\* retry_with_recovery(func, max_attempts, initial_delay, backoff_factor, category)
\* is called
RetryWithRecovery(max_attempts, initial_delay, backoff_factor) ==
    /\ retry.pc = "idle"
    /\ retry' = RetryEntry(max_attempts, initial_delay, backoff_factor)
    /\ UNCHANGED <<message_queue, bus, error_history, current_session, stop_tester_present,
                   pc, tx, rx, uds, ecu_sent, calls, ka_rounds, write_failed,
                   read_log, handed, facade, wrapper, threads, conn, more_vars>>

\* an iteration of the loop: func() and, when it raised, the handler
RetryCall(outcome) ==
    /\ retry.pc = "call"
    /\ retry' = RetryStep(retry, outcome)
    /\ error_history' = RetryHistory(error_history, retry, outcome, "HARDWARE")
    /\ UNCHANGED <<message_queue, bus, current_session, stop_tester_present,
                   pc, tx, rx, uds, ecu_sent, calls, ka_rounds, write_failed,
                   read_log, handed, facade, wrapper, threads, conn, more_vars>>

\* the state before a call of retry_with_recovery
InitRetry ==
    /\ message_queue = [h \in Handlers |-> <<>>]
    /\ bus = [h \in Handlers |-> <<>>]
    /\ error_history = <<>>
    /\ current_session = DEFAULT_SESSION
    /\ stop_tester_present = FALSE
    /\ tx = [c \in Contexts |-> TxIdle]
    /\ pc = [c \in Contexts |-> "off"]
    /\ rx = [c \in Contexts |-> RxIdle]
    /\ uds = [c \in Contexts |-> UdsIdle]
    /\ ecu_sent = 0
    /\ calls = 0
    /\ ka_rounds = 0
    /\ write_failed = 0
    /\ OtherInit

NextRetry ==
    \/ \E max_attempts \in 1..MaxRetryAttempts, initial_delay \in 1..MaxDelay,
          backoff_factor \in 1..MaxFactor :
           RetryWithRecovery(max_attempts, initial_delay, backoff_factor)
    \/ \E outcome \in FuncOutcomes : RetryCall(outcome)

SpecRetry == InitRetry /\ [][NextRetry]_vars

---------------------------------------------------------------------------
(* HarleyDiagnostics and J2534Wrapper: the configuration                   *)

\* config.RETRY_INITIAL_DELAY, in seconds
RETRY_INITIAL_DELAY == 1

\* config.RETRY_BACKOFF_FACTOR
RETRY_BACKOFF_FACTOR == 2

\* config.ALTERNATIVE_CAN_IDS: the (request id, response id) pairs, in list order
ALTERNATIVE_CAN_IDS ==
    << <<2016, 2024>>,              \* (0x7E0, 0x7E8)
       <<2015, 2024>>,              \* (0x7DF, 0x7E8)
       <<416944369, 417001744>>,    \* (0x18DA10F1, 0x18DAF110)
       <<2017, 2025>>,              \* (0x7E1, 0x7E9)
       <<2018, 2026>> >>            \* (0x7E2, 0x7EA)

\* the statuses PassThruOpen, PassThruConnect, PassThruStartMsgFilter,
\* PassThruDisconnect and PassThruClose return
DeviceStatuses == {STATUS_NOERROR, ERR_DEVICE_NOT_CONNECTED}

\* what read_data_by_identifier(0xF190) returns: no data, an empty string,
\* 16 bytes, 17 bytes
VinData == {None, <<>>, [i \in 1..16 |-> 65], [i \in 1..17 |-> 65]}

\* a check of the VIN that accepts data of any length
IsVinAnyLength(data) == data # None /\ data # <<>>

\* test_data and len(test_data) == 17
IsVin(data) == data # None /\ Len(data) = 17

\* a backoff whose exponent is the number of failed attempts
DelayLate(connection_attempts) ==
    RETRY_INITIAL_DELAY * RETRY_BACKOFF_FACTOR ^ connection_attempts

\* delay = RETRY_INITIAL_DELAY * (RETRY_BACKOFF_FACTOR ** (connection_attempts - 1))
Delay(connection_attempts) ==
    RETRY_INITIAL_DELAY * RETRY_BACKOFF_FACTOR ^ (connection_attempts - 1)

\* the variables connect and disconnect do not touch
client_vars == <<message_queue, bus, pc, tx, rx, uds, ecu_sent, calls, ka_rounds,
                 write_failed, read_log, handed, more_vars>>

\* client_vars without what the PassThru DLL holds open
unopened_vars == <<message_queue, bus, pc, tx, rx, uds, ecu_sent, calls, ka_rounds,
                   write_failed, read_log, handed, status_vars, history_vars, receive_vars,
                   loop_vars>>

\* the history after _check_error(status, function_name)
CheckHistory(hist, status, function_name) ==
    IF status = STATUS_NOERROR THEN hist
    ELSE HandleError(hist, CheckError(status, function_name))

\* a step of the adapter, the DLL or the ECU may fail while fewer than MaxFailures have
Budget(ok) == ok \/ conn.failures < MaxFailures

\* the locals l, with the failure of a step counted
Count(ok, l) == [l EXCEPT !.failures = IF ok THEN @ ELSE @ + 1]

---------------------------------------------------------------------------
(* The keep-alive thread and the drain thread, as connect and disconnect   *)
(* see them: started, and ended once the loop has seen its event set       *)

\* _tester_present_loop: the loop condition is tested with the event set
KeepAliveExit ==
    /\ threads.keepalive = "loop"
    /\ stop_tester_present
    /\ threads' = [threads EXCEPT !.keepalive = "ended"]
    /\ UNCHANGED <<client_vars, error_history, current_session, stop_tester_present,
                   facade, wrapper, conn, retry>>

\* _read_loop: the loop condition is tested with the event set
DrainExit ==
    /\ threads.drain = "loop"
    /\ wrapper.stop_reading
    /\ threads' = [threads EXCEPT !.drain = "ended"]
    /\ UNCHANGED <<client_vars, error_history, current_session, stop_tester_present,
                   facade, wrapper, conn, retry>>

---------------------------------------------------------------------------
(* HarleyDiagnostics.disconnect                                            *)

\* the locals at the entry of disconnect, which returns to position after
EnterDisconnect(l, after) ==
    [l EXCEPT !.pc = "d_keepalive", !.after = after, !.steps = <<>>,
              !.entry = <<facade.uds, facade.j2534 /\ wrapper.channel_id # "None",
                          facade.j2534 /\ wrapper.device_id # "None">>,
              !.at_disconnect = "none"]

\* disconnect() is called by the application
Disconnect ==
    /\ conn.pc = "idle"
    /\ conn.calls < MaxFacadeCalls
    /\ conn' = EnterDisconnect([conn EXCEPT !.op = "disconnect", !.calls = @ + 1,
                                            !.result = "none"], "idle")
    /\ UNCHANGED <<client_vars, error_history, current_session, stop_tester_present,
                   facade, wrapper, threads, retry>>

\* if self.uds: self.uds.stop_tester_present(), up to the join
DisconnectStopTesterPresent ==
    /\ conn.pc = "d_keepalive"
    /\ IF facade.uds THEN
            /\ conn' = [conn EXCEPT !.pc = "d_join", !.steps = Append(@, <<"stop_tester_present", STATUS_NOERROR>>)]
            /\ stop_tester_present' = (stop_tester_present \/ threads.keepalive # "None")
       ELSE /\ conn' = [conn EXCEPT !.pc = "d_channel"]
            /\ UNCHANGED stop_tester_present
    /\ UNCHANGED <<client_vars, error_history, current_session, facade, wrapper, threads, retry>>

\* stop_tester_present: join(timeout=2.0) returns, the thread having ended or not:
\* the thread sleeps 2.0 s after a request that was under way when the event was set
DisconnectJoinTesterPresent ==
    /\ conn.pc = "d_join"
    /\ conn' = [conn EXCEPT !.pc = "d_channel"]
    /\ UNCHANGED <<client_vars, error_history, current_session, stop_tester_present,
                   facade, wrapper, threads, retry>>

\* if self.j2534: disconnect_channel(), up to the join of stop_reading
DisconnectStopReading ==
    /\ conn.pc = "d_channel"
    /\ IF facade.j2534 /\ wrapper.channel_id # "None" THEN
            /\ conn' = [conn EXCEPT !.pc = "d_join_reading", !.steps = Append(@, <<"stop_reading", STATUS_NOERROR>>)]
            /\ wrapper' = [wrapper EXCEPT !.stop_reading = @ \/ threads.drain # "None"]
       ELSE /\ conn' = [conn EXCEPT !.pc = IF facade.j2534 THEN "d_close" ELSE "d_end"]
            /\ UNCHANGED wrapper
    /\ UNCHANGED <<client_vars, error_history, current_session, stop_tester_present,
                   facade, threads, retry>>

\* stop_reading: join(timeout=2.0) returns; the drain thread tests its event
\* after every read of at most 50 ms, so that it has ended by then
DisconnectJoinReading ==
    /\ conn.pc = "d_join_reading"
    /\ threads.drain \in {"None", "ended"}
    /\ conn' = [conn EXCEPT !.pc = "d_passthru"]
    /\ UNCHANGED <<client_vars, error_history, current_session, stop_tester_present,
                   facade, wrapper, threads, retry>>

\* a disconnect_channel that keeps channel_id
ChannelKept(w) == w

\* disconnect_channel: finally: self.channel_id = None
ChannelReset(w) == [w EXCEPT !.channel_id = "None"]

\* a disconnect_channel whose error leaves disconnect through its handler
AfterDisconnectChannelRaising(status) ==
    IF status = STATUS_NOERROR THEN "d_close" ELSE "d_end"

\* disconnect: the position after disconnect_channel, which has caught the
\* J2534Exception of a status that is an error
AfterDisconnectChannel(status) == "d_close"

\* disconnect_channel: PassThruDisconnect returns status; channel_id = None
DisconnectChannel(status) ==
    /\ conn.pc = "d_passthru"
    /\ Budget(status = STATUS_NOERROR)
    /\ conn' = Count(status = STATUS_NOERROR,
                     [conn EXCEPT !.pc = AfterDisconnectChannel(status),
                                  !.steps = Append(@, <<"PassThruDisconnect", status>>),
                                  !.at_disconnect = <<threads.keepalive, threads.drain>>])
    /\ wrapper' = ChannelReset(wrapper)
    /\ error_history' = CheckHistory(error_history, status, "PassThruDisconnect")
    /\ UNCHANGED <<unopened_vars, current_session, stop_tester_present, facade, threads, retry>>
    /\ adapter' = [adapter EXCEPT !.channels = @ - 1, !.filters = 0]

\* close_device: PassThruClose returns status when a device is open; device_id = None
CloseDevice(status) ==
    /\ conn.pc = "d_close"
    /\ Budget(status = STATUS_NOERROR)
    /\ IF wrapper.device_id # "None" THEN
            /\ conn' = Count(status = STATUS_NOERROR,
                             [conn EXCEPT !.pc = "d_end",
                                          !.steps = Append(@, <<"PassThruClose", status>>)])
            /\ wrapper' = [wrapper EXCEPT !.device_id = "None"]
            /\ error_history' = CheckHistory(error_history, status, "PassThruClose")
       ELSE /\ status = STATUS_NOERROR
            /\ conn' = [conn EXCEPT !.pc = "d_end"]
            /\ UNCHANGED <<wrapper, error_history>>
    /\ UNCHANGED <<unopened_vars, current_session, stop_tester_present, facade, threads, retry>>
    /\ adapter' = IF wrapper.device_id # "None" THEN [adapter EXCEPT !.devices = @ - 1]
                  ELSE adapter

\* a disconnect that returns with connected as it was
DisconnectEndKeepsConnected ==
    /\ conn.pc = "d_end"
    /\ conn' = [conn EXCEPT !.pc = conn.after,
                            !.result = IF conn.after = "idle" THEN "returned" ELSE @]
    /\ UNCHANGED <<client_vars, error_history, current_session, stop_tester_present,
                   facade, wrapper, threads, retry>>

\* disconnect: self.connected = False, and the return to the caller
DisconnectEnd ==
    /\ conn.pc = "d_end"
    /\ facade' = [facade EXCEPT !.connected = FALSE]
    /\ conn' = [conn EXCEPT !.pc = conn.after,
                            !.result = IF conn.after = "idle" THEN "returned" ELSE @]
    /\ UNCHANGED <<client_vars, error_history, current_session, stop_tester_present,
                   wrapper, threads, retry>>

---------------------------------------------------------------------------
(* HarleyDiagnostics.connect                                               *)

\* an exception of the given kind leaves the try block of connect
Raise(l, exception, severity, category) ==
    [l EXCEPT !.pc = "except", !.exception = exception, !.severity = severity,
              !.category = category,
              !.fatal_at = IF severity = "FATAL" /\ @ = 0 THEN l.connection_attempts ELSE @]

\* connect() is called by the application, on a new HarleyDiagnostics
Connect ==
    /\ conn.pc = "idle"
    /\ conn.op = "none"
    /\ conn' = [ConnIdle EXCEPT !.pc = "loop", !.op = "connect", !.calls = conn.calls + 1,
                                !.MAX_RETRY_ATTEMPTS = conn.MAX_RETRY_ATTEMPTS,
                                !.failures = conn.failures]
    /\ UNCHANGED <<client_vars, error_history, current_session, stop_tester_present,
                   facade, wrapper, threads, retry>>

\* while connection_attempts < max_connection_attempts, and after the loop
\* the call of disconnect
ConnectLoop ==
    /\ conn.pc = "loop"
    /\ conn' = IF conn.connection_attempts < conn.MAX_RETRY_ATTEMPTS
               THEN [conn EXCEPT !.pc = "pre", !.connection_attempts = @ + 1,
                                 !.vin = None, !.tried = <<>>, !.can_ids = None]
               ELSE EnterDisconnect(conn, "return_false")
    /\ UNCHANGED <<client_vars, error_history, current_session, stop_tester_present,
                   facade, wrapper, threads, retry>>

\* return False
ConnectReturnFalse ==
    /\ conn.pc = "return_false"
    /\ conn' = [conn EXCEPT !.pc = "idle", !.result = "False"]
    /\ UNCHANGED <<client_vars, error_history, current_session, stop_tester_present,
                   facade, wrapper, threads, retry>>

\* _pre_connection_diagnostics: find_dll_path() found the DLL or not
PreConnectionDiagnostics(dll_found) ==
    /\ conn.pc = "pre"
    /\ Budget(dll_found)
    /\ conn' = IF dll_found THEN [conn EXCEPT !.pc = "wrapper"]
               ELSE Count(FALSE, Raise(conn, "DiagnosticError", "FATAL", "CONFIGURATION"))
    /\ UNCHANGED <<client_vars, error_history, current_session, stop_tester_present,
                   facade, wrapper, threads, retry>>

\* self.j2534 = J2534Wrapper(): the DLL file exists or the constructor raises
NewWrapper(dll_found) ==
    /\ conn.pc = "wrapper"
    /\ Budget(dll_found)
    /\ IF dll_found THEN
            /\ conn' = [conn EXCEPT !.pc = "open"]
            /\ facade' = [facade EXCEPT !.j2534 = TRUE]
            /\ wrapper' = WrapperNew
            /\ threads' = [threads EXCEPT !.drain = "None"]
       ELSE /\ conn' = Count(FALSE, Raise(conn, "J2534Exception", "CRITICAL", "CONNECTION"))
            /\ UNCHANGED <<facade, wrapper, threads>>
    /\ UNCHANGED <<unopened_vars, error_history, current_session, stop_tester_present, retry>>
    /\ adapter' = IF dll_found THEN [adapter EXCEPT !.filters = 0] ELSE adapter

\* open_device: _load_dll, and the call of retry_with_recovery(_open_attempt, ...)
OpenDevice(loaded) ==
    /\ conn.pc = "open"
    /\ Budget(loaded)
    /\ IF loaded THEN
            /\ conn' = [conn EXCEPT !.pc = "open_attempt"]
            /\ retry' = RetryEntry(conn.MAX_RETRY_ATTEMPTS, RETRY_INITIAL_DELAY,
                                   RETRY_BACKOFF_FACTOR)
            /\ UNCHANGED error_history
       ELSE /\ conn' = Count(FALSE, Raise(conn, "J2534Exception", "CRITICAL", "CONNECTION"))
            /\ error_history' = HandleError(error_history,
                                    Err("HARDWARE", "FATAL", "DLL not loaded", "", 0))
            /\ UNCHANGED retry
    /\ UNCHANGED <<client_vars, current_session, stop_tester_present, facade, wrapper, threads>>

\* open_device: one iteration of retry_with_recovery, in which PassThruOpen
\* returned status; and the end of open_device when the loop has ended
OpenAttempt(status) ==
    /\ conn.pc = "open_attempt"
    /\ retry.pc = "call"
    /\ Budget(status = STATUS_NOERROR)
    /\ LET outcome == IF status = STATUS_NOERROR THEN "ok" ELSE "J2534Exception"
           r       == RetryStep(retry, outcome)
           hist    == RetryHistory(CheckHistory(error_history, status, "PassThruOpen"),
                                   retry, outcome, "HARDWARE")
       IN  IF r.pc = "call" THEN
                /\ retry' = r
                /\ error_history' = hist
                /\ conn' = Count(status = STATUS_NOERROR, conn)
                /\ UNCHANGED wrapper
           ELSE IF r.result = "returned" THEN
                /\ retry' = RetryIdle
                /\ error_history' = hist
                /\ wrapper' = [wrapper EXCEPT !.device_id = "open"]
                /\ conn' = [conn EXCEPT !.pc = "channel"]
           ELSE /\ retry' = RetryIdle
                /\ error_history' = HandleError(hist, RetryExhausted("HARDWARE"))
                /\ conn' = Count(FALSE, Raise(conn, "DiagnosticError", "CRITICAL", "HARDWARE"))
                /\ UNCHANGED wrapper
    /\ UNCHANGED <<unopened_vars, current_session, stop_tester_present, facade, threads>>
    /\ adapter' = IF status = STATUS_NOERROR THEN [adapter EXCEPT !.devices = @ + 1]
                  ELSE adapter

\* connect_channel: PassThruConnect returned status
ConnectChannel(status) ==
    /\ conn.pc = "channel"
    /\ Budget(status = STATUS_NOERROR)
    /\ error_history' = CheckHistory(error_history, status, "PassThruConnect")
    /\ IF status = STATUS_NOERROR THEN
            /\ wrapper' = [wrapper EXCEPT !.channel_id = "open"]
            /\ conn' = [conn EXCEPT !.pc = "health"]
       ELSE /\ conn' = Count(FALSE, Raise(conn, "J2534Exception", "CRITICAL", "CONNECTION"))
            /\ UNCHANGED wrapper
    /\ UNCHANGED <<unopened_vars, current_session, stop_tester_present, facade, threads, retry>>
    /\ adapter' = IF status = STATUS_NOERROR THEN [adapter EXCEPT !.channels = @ + 1]
                  ELSE adapter

\* health_check(): the probe of the adapter succeeds or fails
HealthCheck(healthy) ==
    /\ conn.pc = "health"
    /\ Budget(healthy)
    /\ conn' = IF healthy THEN [conn EXCEPT !.pc = "can_ids"]
               ELSE Count(FALSE, Raise(conn, "DiagnosticError", "CRITICAL", "HARDWARE"))
    /\ UNCHANGED <<client_vars, error_history, current_session, stop_tester_present,
                   facade, wrapper, threads, retry>>

\* start_reading: a thread is started unless one is alive
StartReading(t) == IF t.drain \in {"None", "ended"} THEN [t EXCEPT !.drain = "loop"] ELSE t

\* start_reading: the event is cleared when a thread is started
ClearStopReading(w, t) ==
    IF t.drain \in {"None", "ended"} THEN [w EXCEPT !.stop_reading = FALSE] ELSE w

\* _determine_can_ids without auto-detection, or the first step of _find_working_can_ids
DetermineCanIds ==
    /\ conn.pc = "can_ids"
    /\ conn' = IF facade.auto_detect_can_ids
               THEN [conn EXCEPT !.pc = "probe", !.candidate = 1]
               ELSE [conn EXCEPT !.pc = "filter",
                                 !.can_ids = <<UDS_REQUEST_ID, UDS_RESPONSE_ID>>]
    /\ UNCHANGED <<client_vars, error_history, current_session, stop_tester_present,
                   facade, wrapper, threads, retry>>

\* the next candidate of _find_working_can_ids, or its end without a pair and
\* the standard ids of _determine_can_ids
NextCandidate(l) ==
    IF l.candidate < Len(ALTERNATIVE_CAN_IDS)
    THEN [l EXCEPT !.candidate = @ + 1]
    ELSE [l EXCEPT !.pc = "filter", !.can_ids = <<UDS_REQUEST_ID, UDS_RESPONSE_ID>>]

\* the history when _find_working_can_ids ends after candidate l.candidate
NotFoundHistory(hist, l) ==
    IF l.candidate < Len(ALTERNATIVE_CAN_IDS) THEN hist
    ELSE HandleError(hist, Err("CONFIGURATION", "WARNING", "Auto-detect failed", "", 0))

\* _find_working_can_ids: one iteration, in which PassThruStartMsgFilter returned
\* status and the VIN read on the pair returned data; the entries the read itself
\* adds to error_history are left out
ProbeCandidate(status, data) ==
    /\ conn.pc = "probe"
    /\ Budget(status = STATUS_NOERROR)
    /\ LET pair   == ALTERNATIVE_CAN_IDS[conn.candidate]
           tried  == [conn EXCEPT !.tried = Append(@, <<conn.candidate,
                                                         data # None /\ Len(data) = 17>>)]
           hist   == CheckHistory(error_history, status, "PassThruStartMsgFilter")
       IN  IF status # STATUS_NOERROR THEN
                /\ data = None
                /\ conn' = Count(FALSE, NextCandidate(tried))
                /\ error_history' = NotFoundHistory(hist, conn)
                /\ UNCHANGED <<facade, wrapper, threads>>
           ELSE /\ threads' = StartReading(threads)
                /\ wrapper' = ClearStopReading(wrapper, threads)
                /\ IF IsVin(data) THEN
                        /\ conn' = [tried EXCEPT !.pc = "filter", !.can_ids = pair, !.vin = data]
                        /\ facade' = [facade EXCEPT !.working_can_ids = pair]
                        /\ UNCHANGED error_history
                   ELSE /\ conn' = NextCandidate(tried)
                        /\ error_history' = NotFoundHistory(hist, conn)
                        /\ UNCHANGED facade
    /\ UNCHANGED <<unopened_vars, current_session, stop_tester_present, retry>>
    /\ adapter' = IF status = STATUS_NOERROR THEN [adapter EXCEPT !.filters = @ + 1]
                  ELSE adapter

\* set_flow_control_filter(request_id, response_id): PassThruStartMsgFilter returned status
SetFlowControlFilter(status) ==
    /\ conn.pc = "filter"
    /\ Budget(status = STATUS_NOERROR)
    /\ error_history' = CheckHistory(error_history, status, "PassThruStartMsgFilter")
    /\ conn' = IF status = STATUS_NOERROR THEN [conn EXCEPT !.pc = "reading"]
               ELSE Count(FALSE, Raise(conn, "J2534Exception", "CRITICAL", "CONNECTION"))
    /\ UNCHANGED <<unopened_vars, current_session, stop_tester_present, facade, wrapper,
                   threads, retry>>
    /\ adapter' = IF status = STATUS_NOERROR THEN [adapter EXCEPT !.filters = @ + 1]
                  ELSE adapter

\* start_reading, clear_buffers, ISOTPHandler(...), UDSClient(...): a new client
\* in the default session, without a keep-alive thread
StartProtocols ==
    /\ conn.pc = "reading"
    /\ threads' = [StartReading(threads) EXCEPT !.keepalive = "None"]
    /\ wrapper' = ClearStopReading(wrapper, threads)
    /\ facade' = [facade EXCEPT !.isotp = TRUE, !.uds = TRUE]
    /\ current_session' = DEFAULT_SESSION
    /\ stop_tester_present' = FALSE
    /\ conn' = [conn EXCEPT !.pc = "session"]
    /\ UNCHANGED <<client_vars, error_history, retry>>

\* diagnostic_session_control(EXTENDED_DIAGNOSTIC_SESSION) returned session_success;
\* start_tester_present()
ExtendedSession(session_success) ==
    /\ conn.pc = "session"
    /\ IF session_success THEN
            /\ current_session' = EXTENDED_DIAGNOSTIC_SESSION
            /\ UNCHANGED error_history
       ELSE /\ error_history' = HandleError(error_history,
                    Err("PROTOCOL", "WARNING", "Extended session not available", "", 0))
            /\ UNCHANGED current_session
    /\ threads' = [threads EXCEPT !.keepalive = "loop"]
    /\ stop_tester_present' = FALSE
    /\ conn' = [conn EXCEPT !.pc = "verify"]
    /\ UNCHANGED <<client_vars, facade, wrapper, retry>>

\* _verify_connection: read_data_by_identifier(0xF190) returned data; connected = True
\* and return True, or the DiagnosticError of the failed check
VerifyConnection(data) ==
    /\ conn.pc = "verify"
    /\ Budget(IsVin(data))
    /\ IF IsVin(data) THEN
            /\ facade' = [facade EXCEPT !.connected = TRUE]
            /\ conn' = [conn EXCEPT !.pc = "idle", !.result = "True", !.vin = data]
       ELSE /\ conn' = Count(FALSE, Raise([conn EXCEPT !.vin = data],
                                           "DiagnosticError", "CRITICAL", "CONNECTION"))
            /\ UNCHANGED facade
    /\ UNCHANGED <<client_vars, error_history, current_session, stop_tester_present,
                   wrapper, threads, retry>>

\* except DiagnosticError / except Exception: the error is handled; before the
\* last attempt the delay and disconnect(), after it the failure report
ConnectExcept ==
    /\ conn.pc = "except"
    /\ error_history' = HandleError(error_history,
                            Err(conn.category, conn.severity, conn.exception, "", 0))
    /\ conn' = IF conn.connection_attempts < conn.MAX_RETRY_ATTEMPTS
               THEN EnterDisconnect([conn EXCEPT !.delays = Append(@, Delay(conn.connection_attempts))],
                                    "loop")
               ELSE [conn EXCEPT !.pc = "loop"]
    /\ UNCHANGED <<client_vars, current_session, stop_tester_present, facade, wrapper,
                   threads, retry>>

---------------------------------------------------------------------------
(* The facade, its threads and the adapter                                 *)

\* the state after HarleyDiagnostics(auto_detect_can_ids), with the number of
\* attempts the configuration allows
InitFacade ==
    /\ message_queue = [h \in Handlers |-> <<>>]
    /\ bus = [h \in Handlers |-> <<>>]
    /\ error_history = <<>>
    /\ current_session = DEFAULT_SESSION
    /\ stop_tester_present = FALSE
    /\ tx = [c \in Contexts |-> TxIdle]
    /\ pc = [c \in Contexts |-> "off"]
    /\ rx = [c \in Contexts |-> RxIdle]
    /\ uds = [c \in Contexts |-> UdsIdle]
    /\ ecu_sent = 0
    /\ calls = 0
    /\ ka_rounds = 0
    /\ write_failed = 0
    /\ read_log = <<>>
    /\ handed = [id \in CanIds |-> <<>>]
    /\ \E auto_detect_can_ids \in BOOLEAN : facade = FacadeNew(auto_detect_can_ids)
    /\ wrapper = WrapperNew
    /\ threads = ThreadsNew
    /\ \E n \in 1..MaxAttempts : conn = [ConnIdle EXCEPT !.MAX_RETRY_ATTEMPTS = n]
    /\ retry = RetryIdle
    /\ passthru = <<>>
    /\ error_counts = [category \in ErrorCategory |-> 0]
    /\ handling = [t \in HandlerThreads |-> HandlingIdle]
    /\ rx_log = <<>>
    /\ adapter = AdapterNew
    /\ loops = [t \in LoopThreads |-> LoopNew]

\* the steps of the keep-alive thread and of the drain thread
ThreadNext ==
    \/ KeepAliveExit
    \/ DrainExit

\* the steps of disconnect
DisconnectNext ==
    \/ DisconnectStopTesterPresent
    \/ DisconnectJoinTesterPresent
    \/ DisconnectStopReading
    \/ DisconnectJoinReading
    \/ \E status \in DeviceStatuses : DisconnectChannel(status)
    \/ \E status \in DeviceStatuses : CloseDevice(status)
    \/ DisconnectEnd

\* the steps of connect
ConnectNext ==
    \/ ConnectLoop
    \/ ConnectReturnFalse
    \/ \E dll_found \in BOOLEAN : PreConnectionDiagnostics(dll_found)
    \/ \E dll_found \in BOOLEAN : NewWrapper(dll_found)
    \/ \E loaded \in BOOLEAN : OpenDevice(loaded)
    \/ \E status \in DeviceStatuses : OpenAttempt(status)
    \/ \E status \in DeviceStatuses : ConnectChannel(status)
    \/ \E healthy \in BOOLEAN : HealthCheck(healthy)
    \/ DetermineCanIds
    \/ \E status \in DeviceStatuses, data \in VinData : ProbeCandidate(status, data)
    \/ \E status \in DeviceStatuses : SetFlowControlFilter(status)
    \/ StartProtocols
    \/ \E session_success \in BOOLEAN : ExtendedSession(session_success)
    \/ \E data \in VinData : VerifyConnection(data)
    \/ ConnectExcept

NextFacade ==
    \/ Connect
    \/ Disconnect
    \/ ConnectNext
    \/ DisconnectNext
    \/ ThreadNext

SpecFacade == InitFacade /\ [][NextFacade]_vars

---------------------------------------------------------------------------
(* Properties of the client                                                *)

\* context c is inside send_request
InRequest(c) ==
    uds[c].op # "none" /\ pc[c] \in {"send", "write_first", "send_ret", "recv", "recv_ret"}

\* context c is inside J2534Wrapper.write_message
InWriteMessage(c) == pc[c] = "write_first"

\* C1: at most one request is in progress on the client: the keep-alive thread is
\* never inside send_request while the caller is, and the two threads are never
\* inside write_message at once.
C1_OneRequestAtATime ==
    /\ ~(InRequest("caller") /\ InRequest("keepalive"))
    /\ ~(InWriteMessage("caller") /\ InWriteMessage("keepalive"))

\* C4: send_request takes the branch of the positive response exactly when receive
\* returned a response whose first byte is the request's SID + 0x40, and then it
\* returns the bytes of the response after the first one.
C4_PositiveResponse ==
    (pc["caller"] = "req_ret" /\ uds["caller"].out # "send_failed") =>
        LET u == uds["caller"] IN
        /\ u.response = rx["caller"].result
        /\ (u.out = "positive") <=>
               (u.response # None /\ Len(u.response) >= 1 /\ u.response[1] = u.sid + 64)
        /\ (u.out = "positive") => (~u.raised /\ u.value = Tail(u.response))

\* the request 22 F1 90 was answered with 62 F1 90 41 and send_request returned F1 90 41
C4_Witness ==
    /\ pc["caller"] = "req_ret"
    /\ uds["caller"].sid = READ_DATA_BY_IDENTIFIER
    /\ uds["caller"].response = <<98, 241, 144, 65>>
    /\ uds["caller"].out = "positive"
    /\ uds["caller"].value = <<241, 144, 65>>

\* C5: when the response to a request is 7F SID NRC, send_request raises, and the
\* error it has recorded is of category Protocol, carries the description and the
\* code of the NRC, and has severity Warning for NRC 0x78, Recoverable otherwise.
C5_NegativeResponse ==
    LET u == uds["caller"] IN
    (/\ pc["caller"] = "req_ret"
     /\ u.response # None /\ Len(u.response) >= 3
     /\ u.response[1] = 127 /\ u.response[2] = u.sid) =>
        /\ u.raised
        /\ error_history # <<>> /\ error_history[Len(error_history)] = u.error
        /\ u.error.category = "PROTOCOL"
        /\ u.error.code = u.response[3]
        /\ u.error.severity = (IF u.response[3] = 120 THEN "WARNING" ELSE "RECOVERABLE")
        /\ (u.response[3] = 49) => (u.error.desc = "Request out of range")
        /\ (u.response[3] = 120) =>
               (u.error.desc = "Request correctly received but response is pending")

\* the request 22 F1 90 was answered with 7F 22 78 and the error was recorded as a Warning
C5_Witness ==
    /\ pc["caller"] = "req_ret"
    /\ uds["caller"].sid = READ_DATA_BY_IDENTIFIER
    /\ uds["caller"].response = <<127, 34, 120>>
    /\ uds["caller"].raised
    /\ error_history # <<>>
    /\ error_history[Len(error_history)].severity = "WARNING"
    /\ error_history[Len(error_history)].code = 120

\* C6: send_request takes the branch of the negative response only for a response
\* whose first byte is 0x7F and whose second byte is the SID of the request.
C6_NegativeNamesRequest ==
    (pc["caller"] = "req_ret" /\ uds["caller"].out = "negative") =>
        (uds["caller"].response[1] = 127 /\ uds["caller"].response[2] = uds["caller"].sid)

\* C7: when the request of read_data_by_identifier(0xF190) was answered with
\* 7F 22 78, no timeout has passed and the positive response 62 F1 90 41 has
\* arrived, the call has not returned without the data of that response.
C7_PendingThenPositive ==
    LET u == uds["caller"] IN
    (/\ u.op = "rdbi" /\ u.did = DID_VIN /\ u.requests = 1
     /\ u.response = <<127, 34, 120>>
     /\ rx["caller"].exit = "sf"
     /\ message_queue["A"] = <<SingleFrame(<<98, 241, 144, 65>>)>>) =>
        ~(pc["caller"] = "idle" /\ u.result # <<65>>)

\* C8: read_data_by_identifier(did) returns data only when the response was
\* 62 followed by did, high byte first, and then exactly the bytes after these three.
C8_DataOnlyFromPositive ==
    LET u == uds["caller"] IN
    (pc["caller"] = "idle" /\ u.op = "rdbi" /\ u.result # None) =>
        /\ Len(u.response) >= 3
        /\ u.response[1] = 98
        /\ u.response[2] = u.did \div 256 /\ u.response[3] = u.did % 256
        /\ u.result = SubSeq(u.response, 4, Len(u.response))

\* C9: one call of read_data_by_identifier calls send_request at most twice and
\* puts at most two request frames on the bus, and after a negative response to
\* the first attempt the call has ended with that one request.
C9_AtMostOneRetry ==
    LET u == uds["caller"] IN
    /\ Len(bus["A"]) <= 2 * calls
    /\ u.op = "rdbi" =>
        /\ u.requests <= 2 /\ u.written <= 2 /\ u.written <= u.requests
        /\ (u.attempt = 1 /\ u.out = "negative" /\ pc["caller"] = "req_ret") => u.requests = 1
        /\ u.first = "uds_exception" => (u.requests = 1 /\ pc["caller"] = "idle")

\* read_data_by_identifier(0xF190) has returned None after 7F 22 31 answered its one request
C9_Witness ==
    /\ pc["caller"] = "idle"
    /\ uds["caller"].op = "rdbi"
    /\ uds["caller"].response = <<127, 34, 49>>
    /\ uds["caller"].first = "uds_exception"
    /\ uds["caller"].requests = 1 /\ uds["caller"].written = 1
    /\ uds["caller"].result = None

\* C10: after a response shorter than the DID prefix or with another DID the call
\* of read_data_by_identifier does not send the request a second time.
C10_DataErrorNoRetry ==
    (uds["caller"].op = "rdbi" /\ uds["caller"].first \in {"short", "did_mismatch"}) =>
        uds["caller"].requests = 1

\* C11: current_session holds the session kind requested of diagnostic_session_control
\* exactly when the response to that request began with 0x50; after a negative
\* response, a timeout, a failed send or a response with another first byte it
\* holds the value it had before the call.
C11_SessionOnlyOnPositive ==
    LET u == uds["caller"] IN
    /\ (pc["caller"] = "idle" /\ u.op = "dsc") =>
           (current_session = u.session_type) <=>
               (u.response # None /\ Len(u.response) >= 1
                /\ u.response[1] = DIAGNOSTIC_SESSION_CONTROL + POSITIVE_RESPONSE_OFFSET)
    /\ ~(pc["caller"] = "idle" /\ u.op = "dsc") => current_session = DEFAULT_SESSION

\* C12: every write by which tester_present(suppress_response=True) puts its request
\* on the bus appends the one frame 02 3E 80 00 00 00 00 00 to the frames sent on
\* the request ID, and when no response arrived before the receive timeout the
\* call returns True.
C12_SuppressedTesterPresent ==
    /\ [][(/\ pc["keepalive"] = "write_first"
           /\ pc'["keepalive"] = "send_ret"
           /\ tx'["keepalive"].result) =>
              bus'["A"] = Append(bus["A"], <<2, 62, 128, 0, 0, 0, 0, 0>>)]_vars
    /\ [](LET u == uds["keepalive"] IN
          (pc["keepalive"] = "loop" /\ u.op = "tp" /\ u.out = "timeout") => u.ok)

\* tester_present wrote 02 3E 80 00 00 00 00 00, its receive timed out and it returned True
C12_Witness ==
    /\ pc["keepalive"] = "loop"
    /\ uds["keepalive"].op = "tp"
    /\ uds["keepalive"].written = 1
    /\ uds["keepalive"].out = "timeout"
    /\ uds["keepalive"].ok
    /\ \E i \in DOMAIN bus["A"] : bus["A"][i] = <<2, 62, 128, 0, 0, 0, 0, 0>>

\* the place of message m in the order in which the drain thread read the messages
ReadPosition(m) == CHOOSE k \in DOMAIN read_log : read_log[k] = m

\* C13: for each CAN id, the data get_queued_messages(id) has handed out over all
\* its calls are data of messages of that id which the drain thread read, each
\* handed out once, in the order in which the drain thread read them.
C13_PerIdFifo ==
    \A id \in CanIds :
        LET h == handed[id] IN
        /\ \A i \in DOMAIN h : \E k \in DOMAIN read_log : read_log[k] = <<id, h[i]>>
        /\ \A i, j \in DOMAIN h :
               i < j => ReadPosition(<<id, h[i]>>) < ReadPosition(<<id, h[j]>>)

\* two calls of get_queued_messages(0x7E8) have handed out messages read in
\* different iterations of the drain thread, with a message of another id between them
C13_Witness ==
    /\ Len(handed[UDS_RESPONSE_ID]) >= 2
    /\ handed[OTHER_RESPONSE_ID] # <<>>
    /\ \E i \in DOMAIN handed[UDS_RESPONSE_ID] :
           /\ i + 1 \in DOMAIN handed[UDS_RESPONSE_ID]
           /\ handed[UDS_RESPONSE_ID][i + 1][1] > handed[UDS_RESPONSE_ID][i][1] + 1

\* C20: retry_with_recovery calls func again only after a failure that is neither
\* Fatal nor the exception of a negative response: once func has raised a
\* DiagnosticError of severity FATAL or a UDSException, that call of func is its
\* last and retry_with_recovery has ended by raising.
C20_RetryOnlyRecoverable ==
    \A k \in DOMAIN retry.outcomes :
        retry.outcomes[k] \in {"FatalDiagnosticError", "UDSException"} =>
            /\ k = Len(retry.outcomes)
            /\ retry.pc = "done"
            /\ retry.result = "raised"

---------------------------------------------------------------------------
(* Properties of connect and disconnect                                    *)

\* the names of the steps a call of disconnect has made
StepNames == [k \in DOMAIN conn.steps |-> conn.steps[k][1]]

\* a call of disconnect has returned: to the application, to connect after its
\* loop, or to connect before its next attempt
DisconnectReturned ==
    \/ conn.pc = "idle" /\ conn.op = "disconnect"
    \/ conn.pc = "return_false"
    \/ conn.pc = "pre" /\ conn.connection_attempts > 1

\* disconnect has made all its steps
DisconnectDone == conn.pc = "d_end" \/ DisconnectReturned

\* C14: a call of disconnect, in whatever state it is made, ends with the channel
\* and the device closed and connected False, and a call made when the channel and
\* the device are closed (as every call of disconnect leaves them) issues neither
\* PassThruDisconnect nor PassThruClose.
C14_DisconnectIdempotent ==
    /\ DisconnectReturned =>
           /\ ~facade.connected
           /\ wrapper.channel_id = "None"
           /\ wrapper.device_id = "None"
    /\ (conn.pc \in {"d_keepalive", "d_join", "d_channel", "d_join_reading", "d_passthru",
                     "d_close", "d_end"}
        /\ ~conn.entry[2] /\ ~conn.entry[3]) =>
           \A k \in DOMAIN conn.steps :
               conn.steps[k][1] \notin {"PassThruDisconnect", "PassThruClose"}

\* the application has called disconnect after a connect that failed in
\* _verify_connection and had torn down what it had built: the call has
\* returned and has only stopped the keep-alive thread
C14_Witness ==
    /\ conn.pc = "idle"
    /\ conn.op = "disconnect"
    /\ facade.uds /\ facade.j2534
    /\ ~conn.entry[2] /\ ~conn.entry[3]
    /\ StepNames = <<"stop_tester_present">>
    /\ ~facade.connected

\* the steps disconnect makes, given whether it found a UDS client, an open
\* channel and an open device
ExpectedSteps(entry) ==
    (IF entry[1] THEN <<"stop_tester_present">> ELSE <<>>)
    \o (IF entry[2] THEN <<"stop_reading", "PassThruDisconnect">> ELSE <<>>)
    \o (IF entry[3] THEN <<"PassThruClose">> ELSE <<>>)

\* C15: a call of disconnect that has made all its steps has stopped the keep-alive
\* thread when there is a UDS client, then stopped the drain thread and issued
\* PassThruDisconnect when the channel was open, then issued PassThruClose when the
\* device was open, in this order, whatever status the earlier steps returned.
C15_DisconnectOrder ==
    /\ DisconnectDone => StepNames = ExpectedSteps(conn.entry)
    /\ \A k \in DOMAIN conn.steps : \A j \in 1..(k - 1) :
           <<conn.steps[j][1], conn.steps[k][1]>> \in
               {<<"stop_tester_present", "stop_reading">>,
                <<"stop_tester_present", "PassThruDisconnect">>,
                <<"stop_tester_present", "PassThruClose">>,
                <<"stop_reading", "PassThruDisconnect">>,
                <<"stop_reading", "PassThruClose">>,
                <<"PassThruDisconnect", "PassThruClose">>}

\* PassThruDisconnect has returned an error and PassThruClose was issued after it
C15_Witness ==
    /\ conn.pc = "d_end"
    /\ Len(conn.steps) = 4
    /\ conn.steps[3] = <<"PassThruDisconnect", ERR_DEVICE_NOT_CONNECTED>>
    /\ conn.steps[4][1] = "PassThruClose"

\* C16: when disconnect issues PassThruDisconnect, the keep-alive thread and the
\* drain thread have ended.
C16_ThreadsEndedAtDisconnect ==
    conn.at_disconnect # "none" =>
        /\ conn.at_disconnect[1] \in {"None", "ended"}
        /\ conn.at_disconnect[2] \in {"None", "ended"}

C18_FatalAborts ==
    conn.fatal_at # 0 => conn.connection_attempts = conn.fatal_at

\* C19: with auto-detection the candidate pairs are tried in the order of the list,
\* none after the first whose VIN read returned 17 bytes; that pair is recorded in
\* working_can_ids and used, and when no pair answered all have been tried and the
\* standard ids are used.
C19_AutoDetectOrder ==
    /\ \A k \in DOMAIN conn.tried :
           /\ conn.tried[k][1] = k
           /\ k < Len(conn.tried) => ~conn.tried[k][2]
    /\ (facade.auto_detect_can_ids /\ conn.can_ids # None) =>
           /\ conn.tried # <<>>
           /\ LET last == conn.tried[Len(conn.tried)] IN
              IF last[2]
              THEN /\ conn.can_ids = ALTERNATIVE_CAN_IDS[last[1]]
                   /\ facade.working_can_ids = conn.can_ids
              ELSE /\ Len(conn.tried) = Len(ALTERNATIVE_CAN_IDS)
                   /\ conn.can_ids = <<UDS_REQUEST_ID, UDS_RESPONSE_ID>>
    /\ (~facade.auto_detect_can_ids) => (conn.tried = <<>> /\ facade.working_can_ids = None)

\* the first two pairs did not answer and the third did: (0x18DA10F1, 0x18DAF110)
\* is recorded and used
C19_Witness ==
    /\ facade.auto_detect_can_ids
    /\ conn.tried = << <<1, FALSE>>, <<2, FALSE>>, <<3, TRUE>> >>
    /\ conn.can_ids = <<416944369, 417001744>>
    /\ facade.working_can_ids = <<416944369, 417001744>>
    /\ conn.pc = "filter"

---------------------------------------------------------------------------
(* Properties of retry_with_recovery                                       *)

\* the number of calls of func that raised
FailedCalls(r) == Cardinality({k \in DOMAIN r.outcomes : r.outcomes[k] # "ok"})

\* C21: retry_with_recovery calls func at most max_attempts times; a call that
\* returns is the last one and its result is returned; the wait after the k-th
\* failed call, which precedes call k + 1, lasts initial_delay *
\* backoff_factor^(k-1); and after max_attempts failed calls, and only then, a
\* DiagnosticError of severity CRITICAL is raised.
C21_RetryBounded ==
    retry.pc # "idle" =>
        /\ Len(retry.outcomes) <= retry.max_attempts
        /\ \A k \in DOMAIN retry.outcomes :
               retry.outcomes[k] = "ok" =>
                   /\ k = Len(retry.outcomes)
                   /\ retry.pc = "done"
                   /\ retry.result = "returned"
        /\ Len(retry.delays) = Min(FailedCalls(retry), retry.max_attempts - 1)
        /\ \A k \in DOMAIN retry.delays :
               retry.delays[k] = retry.initial_delay * retry.backoff_factor ^ (k - 1)
        /\ retry.pc = "call" => Len(retry.outcomes) = Len(retry.delays)
        /\ retry.result = "raised" <=> FailedCalls(retry) = retry.max_attempts
        /\ retry.result = "raised" <=> retry.raised # <<>>
        /\ retry.raised # <<>> => retry.raised[1].severity = "CRITICAL"
        /\ retry.pc = "done" <=> retry.result \in {"returned", "raised"}

\* func returned in the third call, after two failed calls and waits of 2 and 4
C21_Witness ==
    /\ retry.max_attempts = 3
    /\ retry.outcomes = <<"J2534Exception", "J2534Exception", "ok">>
    /\ retry.delays = <<2, 4>>
    /\ retry.result = "returned"

---------------------------------------------------------------------------
(* J2534Wrapper: the status of a PassThru call                             *)

\* statuses the DLL returns in the model: no error, the four statuses
\* _check_error names, ERR_BUFFER_EMPTY, and ERR_FAILED for all the others
Statuses == {STATUS_NOERROR, ERR_INVALID_CHANNEL_ID, ERR_FAILED, ERR_DEVICE_NOT_CONNECTED,
             ERR_TIMEOUT, ERR_BUFFER_EMPTY, ERR_INVALID_DEVICE_ID}

\* the PassThru functions whose status the wrapper hands to _check_error as it is
CheckedFunctions == {"PassThruOpen", "PassThruClose", "PassThruConnect",
                     "PassThruDisconnect", "PassThruStartMsgFilter", "PassThruWriteMsgs"}

\* the variables a call of a PassThru function and _check_error do not touch
unchecked_vars == <<message_queue, bus, current_session, stop_tester_present, pc, tx, rx,
                    uds, ecu_sent, calls, ka_rounds, write_failed, read_log, handed,
                    facade, wrapper, threads, conn, retry, history_vars,
                    receive_vars, adapter_vars, loop_vars>>

\* one call of a PassThru function: its status, whether a J2534Exception was
\* raised for it, the entries it added to the error history, and the number of
\* messages the wrapper method returned
PassThruCall(function_name, status, raised, recorded, messages) ==
    [function_name |-> function_name, status |-> status, raised |-> raised,
     recorded |-> recorded, messages |-> messages]

\* the entries _check_error(status, function_name) adds to the history
Recorded(status, function_name) == CheckHistory(<<>>, status, function_name)

\* result = self.dll.<function_name>(...); self._check_error(result, function_name)
CheckErrorCall(function_name, status) ==
    /\ Len(passthru) < MaxPassThruCalls
    /\ error_history' = CheckHistory(error_history, status, function_name)
    /\ passthru' = Append(passthru,
           PassThruCall(function_name, status, status # STATUS_NOERROR,
                        Recorded(status, function_name), 0))
    /\ UNCHANGED unchecked_vars

\* whether read_messages hands the status of PassThruReadMsgs to _check_error
ReadChecked(status) == status # STATUS_NOERROR /\ status # ERR_BUFFER_EMPTY

\* read_messages: PassThruReadMsgs returned status and set num_msgs to n (0 with
\* ERR_BUFFER_EMPTY); the n messages are returned unless _check_error raised
ReadMessages(status, n) ==
    /\ Len(passthru) < MaxPassThruCalls
    /\ status = ERR_BUFFER_EMPTY => n = 0
    /\ IF ReadChecked(status) THEN
            /\ error_history' = CheckHistory(error_history, status, "PassThruReadMsgs")
            /\ passthru' = Append(passthru,
                   PassThruCall("PassThruReadMsgs", status, TRUE,
                                Recorded(status, "PassThruReadMsgs"), 0))
       ELSE /\ passthru' = Append(passthru,
                   PassThruCall("PassThruReadMsgs", status, FALSE, <<>>, n))
            /\ UNCHANGED error_history
    /\ UNCHANGED unchecked_vars

\* clear_buffers: the two calls of PassThruIoctl returned status_tx and status_rx;
\* the method does not look at what they return
ClearBuffers(status_tx, status_rx) ==
    /\ Len(passthru) + 2 <= MaxPassThruCalls
    /\ passthru' = passthru \o
           << PassThruCall("PassThruIoctl", status_tx, FALSE, <<>>, 0),
              PassThruCall("PassThruIoctl", status_rx, FALSE, <<>>, 0) >>
    /\ UNCHANGED <<unchecked_vars, error_history>>

\* a wrapper with an open channel, before any call
InitStatus == InitRetry

NextStatus ==
    \/ \E function_name \in CheckedFunctions, status \in Statuses :
           CheckErrorCall(function_name, status)
    \/ \E status \in Statuses, n \in 0..1 : ReadMessages(status, n)
    \/ \E status_tx \in {STATUS_NOERROR, ERR_FAILED},
          status_rx \in {STATUS_NOERROR, ERR_FAILED} : ClearBuffers(status_tx, status_rx)

SpecStatus == InitStatus /\ [][NextStatus]_vars

\* the category and the severity the mapping gives for a non-zero status
ExpectedKind(status) ==
    IF status = ERR_DEVICE_NOT_CONNECTED THEN <<"HARDWARE", "CRITICAL">>
    ELSE IF status = ERR_TIMEOUT THEN <<"TIMEOUT", "RECOVERABLE">>
    ELSE IF status \in {ERR_INVALID_CHANNEL_ID, ERR_INVALID_DEVICE_ID}
         THEN <<"CONFIGURATION", "CRITICAL">>
    ELSE <<"HARDWARE", "RECOVERABLE">>

\* the call recorded one error of the kind of its status, and raised
TranslatedCall(c) ==
    /\ c.raised
    /\ Len(c.recorded) = 1
    /\ <<c.recorded[1].category, c.recorded[1].severity>> = ExpectedKind(c.status)

\* what holds of the calls whose status reaches _check_error: a non-zero status
\* is recorded with the kind of the mapping and raised, ERR_BUFFER_EMPTY of a
\* read records nothing and no messages are returned, and status 0 records nothing
CheckedStatusTranslated ==
    \A k \in DOMAIN passthru :
        LET c == passthru[k] IN
        c.function_name # "PassThruIoctl" =>
            IF c.status = STATUS_NOERROR THEN ~c.raised /\ c.recorded = <<>>
            ELSE IF c.function_name = "PassThruReadMsgs" /\ c.status = ERR_BUFFER_EMPTY
                 THEN ~c.raised /\ c.recorded = <<>> /\ c.messages = 0
            ELSE TranslatedCall(c)

\* C22: every call of a PassThru function that returned a non-zero status, other
\* than a read that returned ERR_BUFFER_EMPTY, raised an error and recorded it
\* with the category and severity of the mapping.
C22_StatusTranslated ==
    \A k \in DOMAIN passthru :
        LET c == passthru[k] IN
        (/\ c.status # STATUS_NOERROR
         /\ ~(c.function_name = "PassThruReadMsgs" /\ c.status = ERR_BUFFER_EMPTY))
            => TranslatedCall(c)

---------------------------------------------------------------------------
(* ErrorHandler.handle_error called from several threads                   *)

\* the variables handle_error does not touch
unhandled_vars == <<message_queue, bus, current_session, stop_tester_present, pc, tx, rx,
                    uds, ecu_sent, calls, ka_rounds, write_failed, read_log, handed,
                    facade, wrapper, threads, conn, retry, status_vars,
                    receive_vars, adapter_vars, loop_vars>>

\* the category of the errors a thread hands to handle_error: a failed write or
\* read of the adapter, a timeout, and in the client threads a protocol error
CategoriesOf(t) == IF t = "drain" THEN {"HARDWARE", "TIMEOUT"} ELSE ErrorCategory

\* handle_error(error, severity, category) up to self.error_history.append(diag_error)
HandleErrorAppend(t, category) ==
    /\ handling[t].pc = "idle"
    /\ Len(error_history) < MaxHandled
    /\ error_history' = HandleError(error_history, Err(category, "RECOVERABLE", t, "", 0))
    /\ handling' = [handling EXCEPT ![t] = [pc |-> "load", category |-> category, count |-> 0]]
    /\ UNCHANGED <<unhandled_vars, error_counts>>

\* self.error_counts[category] += 1, first half: the count is read
HandleErrorLoad(t) ==
    /\ handling[t].pc = "load"
    /\ handling' = [handling EXCEPT ![t].pc = "store",
                                    ![t].count = error_counts[handling[t].category]]
    /\ UNCHANGED <<unhandled_vars, error_counts, error_history>>

\* self.error_counts[category] += 1, second half: the count read plus one is
\* stored; the rest of handle_error touches neither the history nor the counts
HandleErrorStore(t) ==
    /\ handling[t].pc = "store"
    /\ error_counts' = [error_counts EXCEPT ![handling[t].category] = handling[t].count + 1]
    /\ handling' = [handling EXCEPT ![t] = HandlingIdle]
    /\ UNCHANGED <<unhandled_vars, error_history>>

\* the state after ErrorHandler(): an empty history and all counts 0
InitHistory == InitRetry

NextHistory ==
    \E t \in HandlerThreads :
        \/ \E category \in CategoriesOf(t) : HandleErrorAppend(t, category)
        \/ HandleErrorLoad(t)
        \/ HandleErrorStore(t)

SpecHistory == InitHistory /\ [][NextHistory]_vars

\* sum(self.error_counts.values())
RECURSIVE SumCounts(_, _)
SumCounts(counts, categories) ==
    IF categories = {} THEN 0
    ELSE LET category == CHOOSE x \in categories : TRUE IN
         counts[category] + SumCounts(counts, categories \ {category})

\* C23: whenever no call of handle_error is under way, the history has as many
\* entries as the counts of the categories add up to.
C23_HistoryMatchesCounts ==
    (\A t \in HandlerThreads : handling[t].pc = "idle") =>
        Len(error_history) = SumCounts(error_counts, ErrorCategory)

---------------------------------------------------------------------------
(* Properties of read_data_by_identifier seen by its caller                *)

\* C24: a call of read_data_by_identifier whose last request was answered with a
\* negative response ends by raising UDSException to its caller.
C24_NegativeRaisesToCaller ==
    LET u == uds["caller"] IN
    (/\ pc["caller"] = "idle"
     /\ u.op = "rdbi"
     /\ u.ended # "none"
     /\ u.out = "negative") =>
        u.ended = "raised"

---------------------------------------------------------------------------
(* receive called again after a reassembly was given up                    *)

\* what the ECU sends, in this order: a message of 20 bytes 0x11 in three frames,
\* a message of 13 bytes 0x22 in two frames, and a message of 2 bytes 0x33 in a
\* Single Frame
EcuStream ==
    << <<16, 20, 17, 17, 17, 17, 17, 17>>,
       <<33, 17, 17, 17, 17, 17, 17, 17>>,
       <<34, 17, 17, 17, 17, 17, 17, 17>>,
       <<16, 13, 34, 34, 34, 34, 34, 34>>,
       <<33, 34, 34, 34, 34, 34, 34, 34>>,
       <<2, 51, 51, 0, 0, 0, 0, 0>> >>

\* the message each frame of the stream belongs to
StreamMessage == <<1, 1, 1, 2, 2, 3>>

\* the number of Flow Control frames the ECU has to have got before it sends each
\* frame of the stream: a Consecutive Frame follows the Flow Control that
\* answered its First Frame
StreamFlowControls == <<0, 1, 1, 0, 2, 0>>

\* the ECU puts the next frame of its stream on the bus: it answers the k-th
\* request, which precedes the k-th call of receive, with the k-th message, sends
\* the frames in order, however late, and Consecutive Frames only after the
\* Flow Control
EcuStreamSend ==
    /\ ecu_sent < Len(EcuStream)
    /\ StreamMessage[ecu_sent + 1] <= Len(rx_log) + 1
    /\ StreamFlowControls[ecu_sent + 1] <= Len(bus["A"])
    /\ ecu_sent' = ecu_sent + 1
    /\ bus' = [bus EXCEPT !["B"] = Append(@, EcuStream[ecu_sent + 1])]
    /\ UNCHANGED <<message_queue, error_history, current_session, stop_tester_present,
                   pc, tx, rx, uds, calls, ka_rounds, write_failed, other_vars>>

\* what a call of receive that returned leaves to its caller
Returned(r) == [exit |-> r.exit, first_frame_data |-> r.first_frame_data, result |-> r.result]

\* receive() is called again after the last call returned: new locals
ReceiveAgain(c) ==
    /\ pc[c] = "recv_ret"
    /\ Len(rx_log) + 1 < MaxReceives
    /\ rx_log' = Append(rx_log, Returned(rx[c]))
    /\ rx' = [rx EXCEPT ![c] = RxIdle]
    /\ pc' = [pc EXCEPT ![c] = "recv"]
    /\ UNCHANGED <<message_queue, bus, error_history, current_session, stop_tester_present,
                   tx, uds, ecu_sent, calls, ka_rounds, write_failed, read_log, handed,
                   facade, wrapper, threads, conn, retry, status_vars, history_vars,
                   adapter_vars, loop_vars>>

InitAbandoned == InitReassembly

NextAbandoned ==
    \/ EcuStreamSend
    \/ ReadLoop("A")
    \/ \E status \in WriteStatuses : RecvPoll("caller", status)
    \/ RecvTimeout("caller")
    \/ RecvCfPoll("caller")
    \/ RecvCfTimeout("caller")
    \/ ReceiveAgain("caller")

SpecAbandoned == InitAbandoned /\ [][NextAbandoned]_vars

\* the calls of receive that have returned, the last one included
ReceiveResults ==
    IF pc["caller"] = "recv_ret" THEN Append(rx_log, Returned(rx["caller"])) ELSE rx_log

\* the frames of the message that the First Frame ff begins carry the byte ff[3]
BytesOf(ff) == ff[3]

---------------------------------------------------------------------------
(* Properties of the ISO-TP waits                                          *)

\* C26: a wait of receive that is in progress in the keep-alive thread while the
\* stop event of disconnect is set does not last until its own timeout: the step
\* that ends it is not the expiry of the timeout.
C26_WaitEndsOnDisconnect ==
    [][(/\ stop_tester_present
        /\ pc["keepalive"] = "recv"
        /\ pc'["keepalive"] # "recv")
           => rx'["keepalive"].exit # "timeout"]_vars

---------------------------------------------------------------------------
(* Properties of ISOTPHandler.send                                         *)

\* the frame of n <= 7 bytes: the length, the data, zeros up to 8 bytes
ExpectedSingle(data) ==
    <<Len(data)>> \o data \o [i \in 1..(7 - Len(data)) |-> 0]

\* the First Frame: 0x10 | (n >> 8), n & 0xFF, the first 6 bytes
ExpectedFirst(data) ==
    <<16 + (Len(data) \div 256), Len(data) % 256>> \o SubSeq(data, 1, 6)

\* the k-th Consecutive Frame: sequence nibble k mod 16, bytes 6 + 7(k-1) + 1 to
\* 6 + 7k of the data as far as they exist, zeros up to 8 bytes
ExpectedConsecutive(data, k) ==
    LET lo    == 6 + 7 * (k - 1) + 1
        hi    == Min(Len(data), lo + 6)
        chunk == SubSeq(data, lo, hi)
    IN  <<32 + (k % 16)>> \o chunk \o [i \in 1..(7 - Len(chunk)) |-> 0]

\* the ceil((n - 6) / 7) Consecutive Frames of n >= 8 bytes
ExpectedConsecutives(data) ==
    [k \in 1..((Len(data) - 6 + 6) \div 7) |-> ExpectedConsecutive(data, k)]

\* C27: every step in which send puts frames on the bus puts there, for data of
\* 1 to 7 bytes, the one padded Single Frame, and for data of 8 to 4095 bytes
\* first the First Frame and then, in order, the Consecutive Frames with the
\* sequence nibbles 1, 2, ..., 15, 0, 1, ... (all of them when send succeeds, the
\* first k of them when the write of frame k + 1 fails).
C27_SendFrames ==
    [][LET old  == bus["A"]
           new  == bus'["A"]
           data == tx["caller"].data
           n    == Len(data)
       IN  Len(new) > Len(old) =>
               /\ 1 <= n /\ n <= 4095
               /\ SubSeq(new, 1, Len(old)) = old
               /\ LET written == SubSeq(new, Len(old) + 1, Len(new)) IN
                  IF pc["caller"] = "write_first" THEN
                       written = <<IF n <= 7 THEN ExpectedSingle(data) ELSE ExpectedFirst(data)>>
                  ELSE /\ pc["caller"] = "send_cf"
                       /\ n >= 8
                       /\ written = SubSeq(ExpectedConsecutives(data), 1, Len(written))
                       /\ tx'["caller"].result
                              => Len(written) = Len(ExpectedConsecutives(data))]_vars

\* send of 4095 bytes has succeeded and its 585 Consecutive Frames are on the bus:
\* the 15th, 16th and 17th carry the nibbles 15, 0 and 1, and the last one carries
\* the last byte and six zeros
C27_Witness ==
    /\ pc["caller"] = "send_ret" /\ tx["caller"].result
    /\ Len(tx["caller"].data) = 4095
    /\ Len(bus["A"]) = 585
    /\ bus["A"][15][1] = 47 /\ bus["A"][16][1] = 32 /\ bus["A"][17][1] = 33
    /\ bus["A"][585] = <<41, tx["caller"].data[4095], 0, 0, 0, 0, 0, 0>>

---------------------------------------------------------------------------
(* _send_multi_frame and the Flow Control of the ECU                       *)

FlowControlFlags == {FC_CONTINUE, FC_WAIT, FC_OVERFLOW}

\* a Flow Control frame of the ECU with the given flag
EcuFlowControl(flag) == Pad8(<<FLOW_CONTROL * 16 + flag, ISO_TP_BS, ISO_TP_STMIN>>)

\* a frame of the ECU that is no Flow Control: a late positive response to TesterPresent
EcuOtherFrame == SingleFrame(<<126, 0>>)

\* the data given to send: one Single Frame, or a First Frame and 1, 2 or 3
\* Consecutive Frames
FlowInputs == {Pattern(n) : n \in {5, 8, 13, 20, 21}}

InitFlowControl ==
    /\ message_queue = [h \in Handlers |-> <<>>]
    /\ bus = [h \in Handlers |-> <<>>]
    /\ error_history = <<>>
    /\ current_session = DEFAULT_SESSION
    /\ stop_tester_present = FALSE
    /\ \E data \in FlowInputs :
           tx = [c \in Contexts |-> IF c = "caller" THEN [TxIdle EXCEPT !.data = data] ELSE TxIdle]
    /\ pc = [c \in Contexts |-> IF c = "caller" THEN "send" ELSE "off"]
    /\ rx = [c \in Contexts |-> RxIdle]
    /\ uds = [c \in Contexts |-> UdsIdle]
    /\ ecu_sent = 0
    /\ calls = 0
    /\ ka_rounds = 0
    /\ write_failed = 0
    /\ OtherInit

NextFlowControl ==
    \/ IsoSend("caller")
    \/ \E status \in WriteStatuses : WriteFirst("caller", status)
    \/ WaitFcPoll("caller")
    \/ WaitFcTimeout("caller")
    \/ SendConsecutive("caller")
    \/ \E k \in 0..MaxCfFail, status \in WriteStatuses :
           SendConsecutiveFail("caller", k, status)
    \/ \E flag \in FlowControlFlags : EcuFrameRead(EcuFlowControl(flag))
    \/ EcuFrameRead(EcuOtherFrame)

SpecFlowControl == InitFlowControl /\ [][NextFlowControl]_vars

\* the places of the Flow Control frames in a batch of queued frames
FlowControlsIn(q) == {j \in 1..Len(q) : (q[j][1] \div 16) % 16 = 3}

\* the flag of the first Flow Control in a batch of queued frames, -1 when it has none
FirstFlag(q) ==
    IF FlowControlsIn(q) = {} THEN -1
    ELSE q[CHOOSE j \in FlowControlsIn(q) : \A k \in FlowControlsIn(q) : j <= k][1] % 16

\* the frames on the request bus that are Consecutive Frames
ConsecutivesOn(b) == {j \in 1..Len(b) : (b[j][1] \div 16) % 16 = 2}

\* the step in which _wait_for_flow_control takes a batch of frames from the queue
TakesBatch ==
    /\ pc["caller"] = "wait_fc"
    /\ message_queue["A"] # <<>> /\ message_queue'["A"] = <<>>

\* the step in which _wait_for_flow_control gives up with nothing in the queue
GivesUp ==
    /\ pc["caller"] = "wait_fc" /\ pc'["caller"] # "wait_fc"
    /\ message_queue["A"] = <<>> /\ message_queue'["A"] = <<>>

\* send fails in this step with one more error, of the given kind, and writes nothing
FailsWith(kind) ==
    /\ pc'["caller"] = "send_ret" /\ ~tx'["caller"].result
    /\ bus' = bus /\ ConsecutivesOn(bus["A"]) = {}
    /\ Len(error_history') = Len(error_history) + 1
    /\ error_history'[Len(error_history')].category = kind

\* Consecutive Frames are written only behind a Flow Control with flag continue taken
\* from the queue after the First Frame
WrittenBehindContinue ==
    /\ ConsecutivesOn(bus'["A"]) # ConsecutivesOn(bus["A"]) => pc["caller"] = "send_cf"
    /\ (pc'["caller"] = "send_cf" /\ pc["caller"] # "send_cf")
           => /\ TakesBatch /\ FirstFlag(message_queue["A"]) = FC_CONTINUE
              /\ bus["A"] = <<FirstFrame(tx["caller"].data)>>

\* what holds of the claim: no Consecutive Frame before a Flow Control with flag
\* continue, and on overflow send fails with a Protocol error and no Consecutive Frame
FlowControlObeyed ==
    [][/\ WrittenBehindContinue
       /\ (TakesBatch /\ FirstFlag(message_queue["A"]) = FC_OVERFLOW) => FailsWith("PROTOCOL")]_vars

\* C28: in a multi-frame send no Consecutive Frame is written before a Flow Control
\* with flag continue has been received after the First Frame; on a Flow Control
\* with flag overflow send fails with a Protocol error, and when the wait ends with
\* no Flow Control received it fails with a Timeout error, both times with no
\* Consecutive Frame written.
C28_FlowControlGate ==
    [][/\ WrittenBehindContinue
       /\ (TakesBatch /\ FirstFlag(message_queue["A"]) = FC_OVERFLOW) => FailsWith("PROTOCOL")
       /\ GivesUp => FailsWith("TIMEOUT")]_vars


\* C29: when the Flow Control taken from the queue after the First Frame has flag
\* wait, the sender keeps waiting for another Flow Control: send has not returned,
\* nothing is written and no error is recorded, so that a Flow Control with flag
\* continue that arrives later can still let the Consecutive Frames out.
C29_WaitKeepsWaiting ==
    [][(TakesBatch /\ FirstFlag(message_queue["A"]) = FC_WAIT)
           => /\ pc'["caller"] = "wait_fc"
              /\ bus' = bus
              /\ error_history' = error_history]_vars

---------------------------------------------------------------------------
(* Properties of the Consecutive Frames taken by _receive_multi_frame      *)

\* the places of the Consecutive Frames in a batch of queued frames
ConsecutivesIn(q) == {j \in 1..Len(q) : Len(q[j]) >= 1 /\ (q[j][1] \div 16) % 16 = 2}

\* the place of frame j among the Consecutive Frames of its batch, from 1
RankIn(q, j) == Cardinality({k \in ConsecutivesIn(q) : k <= j})

\* the step in which _receive_multi_frame takes a batch of frames from the queue
CollectsBatch ==
    /\ pc["caller"] = "recv_cf"
    /\ message_queue["A"] # <<>> /\ message_queue'["A"] = <<>>

\* what the step does with the Consecutive Frames of its batch, each of them taken
\* as the claim says, until the declared length is reached
TakenAsClaimed ==
    LET q         == message_queue["A"]
        r         == rx["caller"]
        remaining == r.total_length - Len(r.payload)
        taken     == Min(Cardinality(ConsecutivesIn(q)), (remaining + 6) \div 7)
        odd       == {j \in ConsecutivesIn(q) :
                         /\ RankIn(q, j) <= taken
                         /\ q[j][1] % 16 # (r.expected_seq + RankIn(q, j) - 1) % 16}
    IN  /\ Len(rx'["caller"].payload) = Len(r.payload) + Min(remaining, 7 * taken)
        /\ rx'["caller"].expected_seq = (r.expected_seq + taken) % 16
        /\ rx'["caller"].warned = r.warned + Cardinality(odd)

\* what holds of the claim: Consecutive Frames of 8 bytes are taken as it says,
\* whatever their sequence nibbles
FullFramesTaken ==
    [][(CollectsBatch /\ \A j \in ConsecutivesIn(message_queue["A"]) :
                             Len(message_queue["A"][j]) = 8)
           => TakenAsClaimed]_vars

\* C30: during reassembly every Consecutive Frame is taken whatever its sequence
\* nibble: a nibble other than the expected one adds a warning, the count of
\* assembled bytes grows by min(7, remaining), and the expected sequence number
\* grows by one modulo 16 with every Consecutive Frame.
C30_EveryConsecutiveTaken ==
    [][CollectsBatch => TakenAsClaimed]_vars

---------------------------------------------------------------------------
(* Properties of the validation in ISOTPHandler.send                       *)

\* C31: send of an empty payload or of a payload longer than 4095 bytes never
\* writes a frame and returns failure; the step in which it returns adds exactly one
\* error to the history, a Data error, for the payload that is too long, and none
\* for the empty one.
C31_RejectedWithoutFrame ==
    [][LET data == tx["caller"].data IN
       (data = <<>> \/ Len(data) > 4095) =>
           /\ bus["A"] = <<>> /\ bus'["A"] = <<>>
           /\ pc'["caller"] = "send_ret" => ~tx'["caller"].result
           /\ (pc["caller"] # "send_ret" /\ pc'["caller"] = "send_ret") =>
                  IF data = <<>> THEN error_history' = error_history
                  ELSE /\ Len(error_history') = Len(error_history) + 1
                       /\ SubSeq(error_history', 1, Len(error_history)) = error_history
                       /\ error_history'[Len(error_history')].category = "DATA"]_vars

\* send of 4096 bytes has returned failure with the Data error recorded
C31_Witness ==
    /\ pc["caller"] = "send_ret" /\ ~tx["caller"].result
    /\ Len(tx["caller"].data) = 4096
    /\ bus["A"] = <<>>
    /\ \E i \in 1..Len(error_history) : error_history[i].category = "DATA"

\* send of the empty payload has returned failure
C31_WitnessEmpty ==
    /\ pc["caller"] = "send_ret" /\ ~tx["caller"].result
    /\ tx["caller"].data = <<>>

---------------------------------------------------------------------------
(* Properties of what connect and disconnect leave open in the adapter     *)

\* C32: at most one flow-control filter is installed on the channel at any time
\* during auto-detection and the connect that follows it: the filter installed
\* before is stopped before the next one is installed.
C32_OneFilter == adapter.filters <= 1

---------------------------------------------------------------------------
(* _tester_present_loop and _read_loop: the loop, its event and its handler *)

\* everything but the loops, their events and the wrapper that holds one of them
unlooped_vars == <<message_queue, bus, error_history, current_session, pc, tx, rx, uds,
                   ecu_sent, calls, ka_rounds, write_failed, read_log, handed, facade,
                   threads, conn, retry, status_vars, history_vars, receive_vars,
                   adapter_vars>>

\* _stop_tester_present.is_set() / _stop_reading.is_set()
IsSet(t) == IF t = "keepalive" THEN stop_tester_present ELSE wrapper.stop_reading

\* the events after set() or clear() of the event of thread t
SetEvent(t, value) ==
    IF t = "keepalive"
    THEN stop_tester_present' = value /\ UNCHANGED wrapper
    ELSE wrapper' = [wrapper EXCEPT !.stop_reading = value] /\ UNCHANGED stop_tester_present

\* is_alive() of the thread
IsAlive(t) == loops[t].pc \in {"test", "call", "sleep"}

\* start_tester_present / start_reading: nothing when the thread is alive, else
\* the event is cleared and the thread started
LoopStart(t) ==
    /\ ~IsAlive(t)
    /\ loops[t].iterations < MaxIterations
    /\ SetEvent(t, FALSE)
    /\ loops' = [loops EXCEPT ![t].pc = "test", ![t].seen_set = FALSE]
    /\ UNCHANGED unlooped_vars

\* stop_tester_present / stop_reading: the event is set when there is a thread;
\* join(timeout=2.0) returns with the thread ended or not
LoopStop(t) ==
    /\ loops[t].pc # "none"
    /\ ~IsSet(t)
    /\ SetEvent(t, TRUE)
    /\ UNCHANGED <<loops, unlooped_vars>>

\* a loop that goes on whatever its event says
GoesOnAlways(is_set) == TRUE

\* while not self._stop_tester_present.is_set() / while not self._stop_reading.is_set()
GoesOn(is_set) == ~is_set

\* the loop condition is tested: the next iteration begins, or the thread ends
LoopTest(t) ==
    /\ loops[t].pc = "test"
    /\ IF GoesOn(IsSet(t))
       THEN /\ loops[t].iterations < MaxIterations
            /\ loops' = [loops EXCEPT ![t].pc = "call", ![t].iterations = @ + 1]
       ELSE loops' = [loops EXCEPT ![t].pc = "ended", ![t].seen_set = TRUE]
    /\ UNCHANGED <<stop_tester_present, wrapper, unlooped_vars>>

\* a loop without a handler: the exception ends the thread
AfterBodyUncaught(t, raised) ==
    IF raised THEN "dead" ELSE IF t = "keepalive" THEN "sleep" ELSE "test"

\* the position after the body of the loop: try: ... except Exception: log; the
\* keep-alive loop sleeps for interval after every iteration, the read loop for
\* 0.1 s after an exception
AfterBody(t, raised) ==
    IF t = "keepalive" \/ raised THEN "sleep" ELSE "test"

\* tester_present(suppress_response=True) / read_messages(timeout=50, max_msgs=10)
\* returns, or raises an Exception
LoopBody(t, raised) ==
    /\ loops[t].pc = "call"
    /\ loops' = [loops EXCEPT ![t].pc = AfterBody(t, raised),
                             ![t].caught = IF raised THEN @ + 1 ELSE @]
    /\ UNCHANGED <<stop_tester_present, wrapper, unlooped_vars>>

\* time.sleep(interval) / time.sleep(0.1) returns
LoopSleep(t) ==
    /\ loops[t].pc = "sleep"
    /\ loops' = [loops EXCEPT ![t].pc = "test"]
    /\ UNCHANGED <<stop_tester_present, wrapper, unlooped_vars>>

InitLoops == InitRetry

NextLoops ==
    \E t \in LoopThreads :
        \/ LoopStart(t)
        \/ LoopStop(t)
        \/ LoopTest(t)
        \/ \E raised \in BOOLEAN : LoopBody(t, raised)
        \/ LoopSleep(t)

SpecLoops == InitLoops /\ [][NextLoops]_vars

\* the steps of the threads happen: the blocking calls and the sleeps return
FairLoops ==
    /\ SpecLoops
    /\ \A t \in LoopThreads :
           /\ WF_vars(LoopTest(t))
           /\ WF_vars(\E raised \in BOOLEAN : LoopBody(t, raised))
           /\ WF_vars(LoopSleep(t))

\* C33: an exception raised inside an iteration of the read loop or of the
\* keep-alive loop does not end the thread: the step in which it is raised leads
\* to the sleep of the loop, the sleep to the test of the event, and the test, with
\* the event clear, to the next iteration; the thread ends only by a test that
\* finds the event set.
C33_LoopSurvives ==
    [][\A t \in LoopThreads :
           /\ loops'[t].pc # "dead"
           /\ loops'[t].caught > loops[t].caught => loops'[t].pc = "sleep"
           /\ (loops[t].pc = "sleep" /\ loops'[t].pc # "sleep") => loops'[t].pc = "test"
           /\ (loops[t].pc = "test" /\ loops'[t].pc # "test") =>
                  IF IsSet(t) THEN loops'[t].pc = "ended" ELSE loops'[t].pc = "call"
           /\ (IsAlive(t) /\ ~IsAlive(t)') => (IsSet(t) /\ loops[t].pc = "test")]_vars

\* both loops have begun a second iteration after an exception in the first, with
\* their events clear
C33_Witness ==
    \A t \in LoopThreads :
        /\ loops[t].pc = "call" /\ loops[t].iterations = 2 /\ loops[t].caught = 1
        /\ ~IsSet(t)


\* C34: once the event of a running loop thread is set, the thread eventually ends
\* (the blocking calls and the sleeps returning), and a thread that has found its
\* event set begins no further iteration: it stays ended until start_reading or
\* start_tester_present starts a new thread.
C34_LoopsTerminate ==
    /\ \A t \in LoopThreads : (IsSet(t) /\ IsAlive(t)) ~> (loops[t].pc = "ended")
    /\ [][\A t \in LoopThreads :
              /\ (loops[t].seen_set /\ loops'[t].seen_set) => loops'[t].pc = "ended"
              /\ (IsSet(t) /\ loops'[t].iterations > loops[t].iterations) => FALSE]_vars

\* both threads have ended after an iteration, each by finding its event set
C34_Witness ==
    \A t \in LoopThreads :
        /\ loops[t].pc = "ended" /\ loops[t].seen_set /\ IsSet(t)
        /\ loops[t].iterations >= 1

---------------------------------------------------------------------------
(* connect called again on a facade whose connect has returned             *)

\* connect() is called by the application after an earlier connect() has returned,
\* without a disconnect() in between
ConnectAgain ==
    /\ conn.pc = "idle"
    /\ conn.op = "connect"
    /\ conn.calls < MaxFacadeCalls
    /\ conn' = [ConnIdle EXCEPT !.pc = "loop", !.op = "connect", !.calls = conn.calls + 1,
                                !.MAX_RETRY_ATTEMPTS = conn.MAX_RETRY_ATTEMPTS,
                                !.failures = conn.failures]
    /\ UNCHANGED <<client_vars, error_history, current_session, stop_tester_present,
                   facade, wrapper, threads, retry>>

NextReconnect ==
    \/ NextFacade
    \/ ConnectAgain

SpecReconnect == InitFacade /\ [][NextReconnect]_vars

\* C35: a facade has at most one device and at most one channel open at any time,
\* across the attempts of one connect and across calls of connect without a
\* disconnect between them.
C35_OneDeviceOneChannel == adapter.devices <= 1 /\ adapter.channels <= 1

---------------------------------------------------------------------------
(* connect: the request for the extended session and what follows it       *)

\* the state of connect before line 78: device and channel open, the filter
\* installed, the drain thread started, ISOTPHandler and UDSClient created
InitSession ==
    /\ message_queue = [h \in Handlers |-> <<>>]
    /\ bus = [h \in Handlers |-> <<>>]
    /\ error_history = <<>>
    /\ current_session = DEFAULT_SESSION
    /\ stop_tester_present = FALSE
    /\ tx = [c \in Contexts |-> TxIdle]
    /\ pc = [c \in Contexts |-> IF c = "caller" THEN "idle" ELSE "off"]
    /\ rx = [c \in Contexts |-> RxIdle]
    /\ uds = [c \in Contexts |-> UdsIdle]
    /\ ecu_sent = 0
    /\ calls = 0
    /\ ka_rounds = 0
    /\ write_failed = 0
    /\ read_log = <<>>
    /\ handed = [id \in CanIds |-> <<>>]
    /\ facade = [FacadeNew(FALSE) EXCEPT !.j2534 = TRUE, !.isotp = TRUE, !.uds = TRUE]
    /\ wrapper = [WrapperNew EXCEPT !.device_id = "open", !.channel_id = "open"]
    /\ threads = [ThreadsNew EXCEPT !.drain = "loop"]
    /\ conn = [ConnIdle EXCEPT !.pc = "session", !.op = "connect", !.MAX_RETRY_ATTEMPTS = 1,
                               !.calls = 1, !.connection_attempts = 1,
                               !.can_ids = <<UDS_REQUEST_ID, UDS_RESPONSE_ID>>]
    /\ retry = RetryIdle
    /\ passthru = <<>>
    /\ error_counts = [category \in ErrorCategory |-> 0]
    /\ handling = [t \in HandlerThreads |-> HandlingIdle]
    /\ rx_log = <<>>
    /\ adapter = [devices |-> 1, channels |-> 1, filters |-> 1]
    /\ loops = [t \in LoopThreads |-> LoopNew]

\* connect, lines 78-101: diagnostic_session_control has returned session_success (or
\* raised, which leaves session_success False); the warning, start_tester_present()
ConnectSession ==
    /\ pc["caller"] = "idle"
    /\ uds["caller"].op = "dsc"
    /\ ExtendedSession(uds["caller"].ok)

NextSession ==
    \/ DiagnosticSessionControl("caller", EXTENDED_DIAGNOSTIC_SESSION)
    \/ IsoSend("caller")
    \/ \E status \in WriteStatuses : WriteFirst("caller", status)
    \/ AfterSend("caller")
    \/ RecvPoll("caller", STATUS_NOERROR)
    \/ RecvTimeout("caller")
    \/ SendRequestReturn("caller")
    \/ SessionControlReturn("caller")
    \/ ConnectSession
    \/ \E p \in EcuPayloads : EcuFrameRead(SingleFrame(p))

SpecSession == InitSession /\ [][NextSession]_vars

\* the request 10 03 got a positive response: one that begins with 0x50
SessionGranted ==
    LET response == uds["caller"].response IN
    response # None /\ Len(response) >= 1 /\ response[1] = 80

\* connect has gone on without the extended session: the warning is the last
\* error recorded, the session kind is Default, the keep-alive thread is started
\* and the VIN verification is next
WentOnInDefault ==
    /\ error_history # <<>>
    /\ error_history[Len(error_history)].category = "PROTOCOL"
    /\ error_history[Len(error_history)].severity = "WARNING"
    /\ current_session = DEFAULT_SESSION
    /\ threads.keepalive = "loop" /\ ~stop_tester_present
    /\ conn.pc = "verify"

\* what holds of the claim: connect goes on in this way whenever
\* diagnostic_session_control has not returned True, and it never leaves the
\* attempt at this point
WentOnAfterFalse ==
    /\ conn.pc \in {"session", "verify"}
    /\ (conn.pc = "verify" /\ ~uds["caller"].ok) => WentOnInDefault

\* C36: when the request for the extended session has failed (it got no positive
\* response), connect does not abort the attempt: it records a warning, leaves the
\* session kind at Default, starts the keep-alive thread and goes on to the VIN
\* verification.
C36_SessionFailureGoesOn ==
    /\ conn.pc \in {"session", "verify"}
    /\ (conn.pc = "verify" /\ ~SessionGranted) => WentOnInDefault

---------------------------------------------------------------------------
(* Properties of the frames send_request takes for the response            *)

\* the frames that are in the queue of the response id when the application
\* starts a request: up to MaxEcuFrames Single Frames that the drain thread has
\* read since the last call of receive returned
LateFrames ==
    UNION {[1..n -> {SingleFrame(p) : p \in EcuPayloads}] : n \in 1..MaxEcuFrames}

\* the client is idle, frames of the response id are in the queue, and the ECU
\* sends nothing more: a state Spec reaches by steps of the ECU alone
InitLate ==
    /\ message_queue \in {[h \in Handlers |-> IF h = "A" THEN q ELSE <<>>] : q \in LateFrames}
    /\ bus = [h \in Handlers |-> <<>>]
    /\ error_history = <<>>
    /\ current_session = DEFAULT_SESSION
    /\ stop_tester_present = FALSE
    /\ tx = [c \in Contexts |-> TxIdle]
    /\ pc = [c \in Contexts |-> IF c = "caller" THEN "idle" ELSE "off"]
    /\ rx = [c \in Contexts |-> RxIdle]
    /\ uds = [c \in Contexts |-> UdsIdle]
    /\ ecu_sent = Len(message_queue["A"])
    /\ calls = 0
    /\ ka_rounds = 0
    /\ write_failed = 0
    /\ OtherInit

\* the application thread alone: no frame is put in the queue after InitLate
NextLate == CallerNext

SpecLate == InitLate /\ [][NextLate]_vars

\* send_request has returned a positive response or classified a negative one
ResponseTaken ==
    pc["caller"] = "req_ret" /\ uds["caller"].out \in {"positive", "negative"}

\* C37: the response send_request returns or classifies for a request was put in
\* the queue after the request was written: where every frame in the queue was
\* there before the request was written, and none comes after, send_request
\* takes no frame for the response.
C37_ResponseIsFresh == ~ResponseTaken

---------------------------------------------------------------------------
(* Properties of the suppressed TesterPresent that gets no response        *)

\* C38: in tester_present(suppress_response=True) whose request was written, the
\* steps in which receive runs out of its 500 ms without a response and in which
\* send_request returns None for it leave the error history as it was (and with
\* it the error counters, which handle_error increments with every append).
C38_SilenceIsNoError ==
    [][(/\ uds["keepalive"].op = "tp"
        /\ uds["keepalive"].suppress
        /\ pc["keepalive"] \in {"recv", "recv_ret"}
        /\ rx'["keepalive"].exit = "timeout")
           => error_history' = error_history]_vars

---------------------------------------------------------------------------
(* Properties of the queue between the drain thread and its readers        *)

\* the messages of each id are, in the order in which the drain thread read them,
\* first those handed out and then those in the queue
NothingLostOrTwice ==
    \A id \in CanIds :
        handed[id] \o DataOf(WithId(message_queue, id)) = DataOf(WithId(read_log, id))

\* a call that handed out messages of one id only has left the messages of every
\* other id in the queue, in their order
OthersStay ==
    \A id \in CanIds :
        (handed'[id] # handed[id] /\ \A o \in CanIds \ {id} : handed'[o] = handed[o])
            => \A o \in CanIds \ {id} :
                   WithId(message_queue', o) = WithId(message_queue, o)

\* C39: every message the drain thread has read has been handed out by exactly
\* one call of get_queued_messages or is in the queue, whatever the interleaving
\* of the drain thread's appends with the calls, and a call that takes the
\* messages of one CAN id leaves those of every other id in the queue, in order.
C39_QueueKeepsEveryFrame == [] NothingLostOrTwice /\ [][OthersStay]_vars

\* get_queued_messages(0x7E8) has handed out a message that the drain thread read
\* after a message of the other id which is still in the queue
C39_Witness ==
    /\ handed[OTHER_RESPONSE_ID] = <<>>
    /\ \E i \in DOMAIN handed[UDS_RESPONSE_ID], k \in DOMAIN message_queue :
           /\ message_queue[k][1] = OTHER_RESPONSE_ID
           /\ message_queue[k][2][1] < handed[UDS_RESPONSE_ID][i][1]
    /\ \E k \in DOMAIN message_queue : message_queue[k][1] = UDS_RESPONSE_ID

---------------------------------------------------------------------------
(* Properties of HarleyDiagnostics.connected                               *)

\* disconnect is executing, called by the application or by connect
InDisconnect ==
    conn.pc \in {"d_keepalive", "d_join", "d_channel", "d_join_reading", "d_passthru",
                 "d_close", "d_end"}

\* outside disconnect, connected is True only with the device and the channel of
\* the wrapper open and the drain thread started
ConnectedMeansOpen ==
    (facade.connected /\ ~InDisconnect)
        => /\ wrapper.device_id # "None"
           /\ wrapper.channel_id # "None"
           /\ threads.drain # "None"

\* connected becomes True only where _verify_connection has returned a VIN, becomes
\* False only at the end of disconnect, and is False when disconnect returns
ConnectedSteps ==
    /\ (~facade.connected /\ facade'.connected) => (conn.pc = "verify" /\ IsVin(conn'.vin))
    /\ (facade.connected /\ ~facade'.connected) => conn.pc = "d_end"
    /\ (conn.pc = "d_end" /\ conn'.pc # "d_end") => ~facade'.connected

ConnectedAtRest ==
    (facade.connected /\ conn.pc = "idle")
        => /\ wrapper.device_id # "None"
           /\ wrapper.channel_id # "None"
           /\ threads.drain # "None"

\* the same across calls of connect made again without a disconnect between them
ConnectedAcrossCalls == [] ConnectedAtRest /\ [][ConnectedSteps]_vars

====
